---------------------------- MODULE Spec2Model ----------------------------
(***************************************************************************)
(* A model of the block-trip scheduling core of maglev: the service        *)
(* calendar resolver, the active-trip queries of gtfsdb/query.sql, the     *)
(* reader/writer discipline of the REST handlers over the GTFS manager,    *)
(* the rebuild of the block-trip index and the per-key rate limiter.       *)
(*                                                                         *)
(* Dates are the YYYYMMDD strings of the tables read as integers: on       *)
(* eight-digit strings SQLite's text comparison and integer comparison     *)
(* agree.  Times are seconds since local midnight.                         *)
(***************************************************************************)
EXTENDS Integers, Sequences, FiniteSets, TLC

VARIABLES
    calendar,           \* table calendar: a set of rows, keyed by id
    calendar_dates,     \* table calendar_dates: a set of rows, keyed by (service_id, date)
    activeQuery,        \* the last GetActiveServiceIDsForDate call and its rows
    trips,              \* table trips: a set of rows, keyed by id
    stop_times,         \* table stop_times: a set of rows, keyed by (trip_id, stop_sequence)
    block_trip_index,   \* table block_trip_index: a set of rows, keyed by id
    block_trip_entry,   \* table block_trip_entry: a set of rows
    tripQuery,          \* the last single-row active-trip query and what it returned
    windowQuery,        \* the last GetStopTimesForStopInWindow call and its rows
    indexQuery,         \* the last query for block_trip_index ids and its list
    scheduleQuery,      \* the last GetScheduleForStopOnDate call and its rows
    mu,                 \* the GTFS manager's RWMutex: its read holders and its writer
    requests,           \* each worker's request: its handler, position and reads so far
    rebuild,            \* the import pipeline's position in its update and Rebuild
    committed,          \* every index a finished Rebuild, or the start, left in the tables
    rl,                 \* the RateLimitMiddleware's rateLimit, burstSize and exemptKeys
    limiters,           \* rl.limiters: api key -> client (its limiter and lastSeen)
    allocated,          \* every rate.Limiter made by rate.NewLimiter: its tokens and last
    rl_mu,              \* the goroutines inside rl.mu.Lock() ... rl.mu.Unlock()
    serving,            \* each goroutine's request and its position in the handler
    now,                \* the time, in nanoseconds since the middleware was made
    responses,          \* what the middleware answered, in the order it decided
    clock,              \* rl.clock.Now(), in minutes since the middleware was made
    stopChan,           \* rl.stopChan: whether it is closed, and how often it was
    stopOnce,           \* rl.stopOnce: whether it is done, and who is running it
    cleanupTick,        \* rl.cleanupTick: whether it is stopped, and the ticks in C
    cleanupGoroutine,   \* the goroutine of cleanup(): where it is, the ticks it took
    evictions,          \* every pass of cleanup(): its time and rl.limiters around it
    stoppers,           \* the callers of Stop and Shutdown: where each one is
    items,              \* the list a handler is about to paginate
    pageQuery,          \* the offset, limit and maxCount parameters of the request
    parsed,             \* what ParsePaginationParams returned for them
    pages               \* the calls of PaginateSlice so far, and what they returned

calVars == <<calendar, calendar_dates, activeQuery>>

tripTables == <<trips, stop_times, block_trip_index, block_trip_entry>>

queryVars == <<tripQuery, windowQuery, indexQuery, scheduleQuery>>

tripVars == <<tripTables, queryVars>>

lockVars == <<mu, requests, rebuild, committed>>

stopVars ==
    <<clock, stopChan, stopOnce, cleanupTick, cleanupGoroutine, evictions, stoppers>>

rateVars == <<rl, limiters, allocated, rl_mu, serving, now, responses, stopVars>>

pageVars == <<items, pageQuery, parsed, pages>>

restVars == <<rateVars, pageVars>>

vars == <<calVars, tripVars, lockVars, restVars>>

\* everything but the rate limiter
otherVars == <<calVars, tripVars, lockVars, pageVars>>

-----------------------------------------------------------------------------
(* Bounded input domains of the calendar resolver *)

Services == {"s1", "s2"}

\* 20250105 is a Sunday, 20250106 and 20250113 are Mondays, 20251231 a Wednesday
Dates == {20250105, 20250106, 20250113, 20251231}

StartDates == {20250101, 20250106}

EndDates == {20250106, 20251231}

WeekFlags(mon, tue, wed, thu, fri, sat, sun) ==
    [monday |-> mon, tuesday |-> tue, wednesday |-> wed, thursday |-> thu,
     friday |-> fri, saturday |-> sat, sunday |-> sun]

\* a Mondays-only service, and one that runs on Wednesdays and Sundays
FlagPatterns ==
    { WeekFlags(1, 0, 0, 0, 0, 0, 0),
      WeekFlags(0, 0, 1, 0, 0, 0, 1) }

MaxExceptionRows == 2

NoQuery == [date |-> 0, rows |-> [s \in Services |-> 0], err |-> "nil"]

-----------------------------------------------------------------------------
(* Row multisets: a query's result rows, counted per service id *)

Distinct(rows) == [s \in Services |-> IF rows[s] > 0 THEN 1 ELSE 0]

UnionAll(a, b) == [s \in Services |-> a[s] + b[s]]

Union(a, b) == Distinct(UnionAll(a, b))

NotInIgnored(a, b) == a

NotIn(a, b) == [s \in Services |-> IF b[s] > 0 THEN 0 ELSE a[s]]

RowSet(rows) == {s \in Services : rows[s] > 0}

-----------------------------------------------------------------------------
(* GetActiveServiceIDsForDate *)

\* STRFTIME('%w', 'YYYY-MM-DD'): SQLite's Julian day number of the date,
\* plus one and a half days, modulo 7; 0 is Sunday
FormattedDateWeekday(d) ==
    LET y0 == d \div 10000
        m0 == (d \div 100) % 100
        dd == d % 100
        y  == IF m0 <= 2 THEN y0 - 1 ELSE y0
        m  == IF m0 <= 2 THEN m0 + 12 ELSE m0
        a  == y \div 100
        b  == 2 - a + (a \div 4)
        x1 == (36525 * (y + 4716)) \div 100
        x2 == (306001 * (m + 1)) \div 10000
    IN  (x1 + x2 + dd + b - 1523) % 7

WeekdayFlagSet(c, weekday) ==
    \/ weekday = 0 /\ c.sunday = 1
    \/ weekday = 1 /\ c.monday = 1
    \/ weekday = 2 /\ c.tuesday = 1
    \/ weekday = 3 /\ c.wednesday = 1
    \/ weekday = 4 /\ c.thursday = 1
    \/ weekday = 5 /\ c.friday = 1
    \/ weekday = 6 /\ c.saturday = 1

InCalendarRangeEndExclusive(c, d) == c.start_date <= d /\ c.end_date > d

InCalendarRange(c, d) == c.start_date <= d /\ c.end_date >= d

BaseServices(d) ==
    [s \in Services |->
        Cardinality({c \in calendar :
            /\ c.id = s
            /\ InCalendarRange(c, d)
            /\ WeekdayFlagSet(c, FormattedDateWeekday(d))})]

ExceptionServices(d, type) ==
    [s \in Services |->
        Cardinality({r \in calendar_dates :
            r.service_id = s /\ r.date = d /\ r.exception_type = type})]

RemovedServices(d) == ExceptionServices(d, 2)

AddedServicesInCalendarOnly(d) ==
    [s \in Services |->
        IF \E c \in calendar : c.id = s /\ c.start_date <= d /\ c.end_date >= d
        THEN ExceptionServices(d, 1)[s] ELSE 0]

AddedServices(d) == ExceptionServices(d, 1)

CombineActiveUnionAll(kept, added) == UnionAll(Distinct(kept), Distinct(added))

CombineActive(kept, added) == Union(Distinct(kept), Distinct(added))

GetActiveServiceIDsForDateRows(d) ==
    CombineActive(NotIn(BaseServices(d), RemovedServices(d)), AddedServices(d))

-----------------------------------------------------------------------------
(* Operations on the calendar tables *)

\* INSERT OR REPLACE INTO calendar: the row of the same id is replaced
CreateCalendar(id, flags, start, end) ==
    /\ calendar' = {c \in calendar : c.id # id} \cup
           {[id |-> id, monday |-> flags.monday, tuesday |-> flags.tuesday,
             wednesday |-> flags.wednesday, thursday |-> flags.thursday,
             friday |-> flags.friday, saturday |-> flags.saturday,
             sunday |-> flags.sunday, start_date |-> start, end_date |-> end]}
    /\ activeQuery' = NoQuery
    /\ UNCHANGED calendar_dates

\* the key of calendar_dates that INSERT OR REPLACE replaces on
CalendarDatesKey(r) == <<r.service_id, r.date>>

\* INSERT OR REPLACE INTO calendar_dates
CreateCalendarDate(service_id, date, exception_type) ==
    LET row == [service_id |-> service_id, date |-> date,
                exception_type |-> exception_type]
        kept == {r \in calendar_dates : CalendarDatesKey(r) # CalendarDatesKey(row)}
    IN  /\ Cardinality(kept) < MaxExceptionRows
        /\ calendar_dates' = kept \cup {row}
        /\ activeQuery' = NoQuery
        /\ UNCHANGED calendar

\* DELETE FROM calendar
ClearCalendar ==
    /\ calendar # {}
    /\ calendar' = {}
    /\ activeQuery' = NoQuery
    /\ UNCHANGED calendar_dates

\* a :many query: the rows found, none included, and no error
GetActiveServiceIDsForDate(d) ==
    activeQuery' = [date |-> d, rows |-> GetActiveServiceIDsForDateRows(d),
                    err |-> "nil"]

-----------------------------------------------------------------------------
(* Bounded input domains of the trip queries *)

\* trip identifiers in ascending order
TripOrder == <<"T1", "T2", "T3">>

TripIDs == {TripOrder[i] : i \in DOMAIN TripOrder}

TripRank(id) == CHOOSE i \in DOMAIN TripOrder : TripOrder[i] = id

Routes == {"R1", "R2"}

\* a NULL or empty block_id
NoBlock == ""

Blocks == {"B1", NoBlock}

StopTime(seq, stop, arr, dep) ==
    [stop_sequence |-> seq, stop_id |-> stop, arrival_time |-> arr,
     departure_time |-> dep]

\* 28800..29400 and 29500..30300 are the two legs of the block of spec
\* section 8; the long run spans both and serves another last stop
EarlyRun == {StopTime(1, "A", 28740, 28800), StopTime(2, "B", 29400, 29460)}

LateRun == {StopTime(1, "A", 29440, 29500), StopTime(2, "B", 30300, 30360)}

LongRun == {StopTime(1, "A", 28740, 28800), StopTime(2, "C", 30300, 30360)}

StopPatterns == {EarlyRun, LateRun, LongRun}

\* a run with a stop between its ends, where the bus waits
DwellRun ==
    {StopTime(1, "A", 28740, 28800), StopTime(2, "B", 29000, 29060),
     StopTime(3, "C", 29400, 29400)}

\* rows that CreateStopTime takes as well: the second stop of the run has
\* times before the first
OutOfOrderRun ==
    {StopTime(1, "A", 29440, 29500), StopTime(2, "B", 29000, 29060),
     StopTime(3, "C", 30300, 30360)}

\* the last stop of the run has times before the second
EarlyEndRun ==
    {StopTime(1, "A", 28740, 28800), StopTime(2, "B", 29500, 29560),
     StopTime(3, "C", 29400, 29420)}

QueryTimes == {28800, 29000, 29400, 29450, 29600}

FromTimes == {29400, 29450}

QueryBlocks == {"B1", "B2"}

ActiveSets == {{}, {"s1"}, {"s1", "s2"}}

IndexIDSets == {{1}, {1, 2}}

StopIDs == {"A", "B", "C"}

Windows == {<<28700, 28740>>, <<28750, 28800>>, <<29400, 29500>>, <<29461, 29499>>}

ErrNoRows == "sql: no rows in result set"

NoTripQuery ==
    [kind |-> "none", target |-> "", current_time |-> 0, from_time |-> 0,
     service_ids |-> {}, index_ids |-> {}, trip |-> "", err |-> "nil"]

NoWindowQuery ==
    [stop_id |-> "", window_start |-> 0, window_end |-> 0, rows |-> <<>>,
     err |-> "nil"]

\* no GetBlockTripIndexIDsForRoute and no GetBlockTripIndexIDsForBlocks call yet
NoIndexQuery ==
    [route |-> [asked |-> FALSE, route_id |-> "", service_ids |-> {}, ids |-> <<>>],
     blocks |-> [asked |-> FALSE, block_ids |-> {}, service_ids |-> {}, ids |-> <<>>]]

\* no GetScheduleForStopOnDate call yet
NoScheduleQuery ==
    [asked |-> FALSE, stop_id |-> "", target_date |-> 0, weekday |-> "",
     route_ids |-> {}, rows |-> {}]

-----------------------------------------------------------------------------
(* The imported schedule *)

TripRow(id, d) ==
    [id |-> id, route_id |-> d.route_id, service_id |-> d.service_id,
     block_id |-> d.block_id]

StopTimeRows(id, pattern) ==
    {[trip_id |-> id, stop_sequence |-> st.stop_sequence, stop_id |-> st.stop_id,
      arrival_time |-> st.arrival_time, departure_time |-> st.departure_time] :
        st \in pattern}

\* the schedules an import can leave in the tables: every trip with a
\* route, a service, a block or none, and one of the stop patterns
Schedules(routes, services, blocks, patterns) ==
    [TripIDs -> [route_id : routes, service_id : services, block_id : blocks,
                 pattern : patterns]]

TripStopTimes(trip_id) == {st \in stop_times : st.trip_id = trip_id}

-----------------------------------------------------------------------------
(* The block-trip index, as Rebuild leaves it *)

\* the stop ids of a trip in stop_sequence order
StopSequenceKeyOf(rows) ==
    LET n == Cardinality(rows)
        ordered == CHOOSE sq \in [1..n -> rows] :
                       \A i, j \in 1..n :
                           i < j => sq[i].stop_sequence < sq[j].stop_sequence
    IN  [i \in 1..n |-> ordered[i].stop_id]

IndexedTrips(tr) == {t \in tr : t.block_id # NoBlock}

GroupOfBlockOnly(t, st) == <<t.block_id, <<>>>>

GroupOf(t, st) ==
    <<t.block_id, StopSequenceKeyOf({r \in st : r.trip_id = t.id})>>

IndexGroups(tr, st) == {GroupOf(t, st) : t \in IndexedTrips(tr)}

\* the order in which Rebuild creates the groups' index rows
GroupSequence(tr, st) ==
    LET groups == IndexGroups(tr, st)
        n == Cardinality(groups)
    IN  CHOOSE sq \in [1..n -> groups] : \A i, j \in 1..n : i # j => sq[i] # sq[j]

IndexRow(id, group, tr, st, created_at) ==
    [id |-> id, index_key |-> group, stop_sequence_key |-> group[2],
     created_at |-> created_at,
     service_ids |-> {t.service_id : t \in {u \in IndexedTrips(tr) : GroupOf(u, st) = group}}]

FirstDepartureOf(trip_id, st) ==
    LET rows == {r \in st : r.trip_id = trip_id}
    IN  (CHOOSE r \in rows : \A o \in rows : r.departure_time <= o.departure_time).departure_time

BlockTripSequenceTiesShareRank(t, tr, st) ==
    Cardinality({u \in IndexedTrips(tr) :
        /\ u.block_id = t.block_id
        /\ u.service_id = t.service_id
        /\ FirstDepartureOf(u.id, st) < FirstDepartureOf(t.id, st)})

\* the 0-based position of a trip among the trips of its block and service,
\* by first departure
BlockTripSequence(t, tr, st) ==
    Cardinality({u \in IndexedTrips(tr) :
        /\ u.block_id = t.block_id
        /\ u.service_id = t.service_id
        /\ \/ FirstDepartureOf(u.id, st) < FirstDepartureOf(t.id, st)
           \/ /\ FirstDepartureOf(u.id, st) = FirstDepartureOf(t.id, st)
              /\ TripRank(u.id) < TripRank(t.id)})

EntryRow(index_id, t, tr, st) ==
    [block_trip_index_id |-> index_id, trip_id |-> t.id, block_id |-> t.block_id,
     service_id |-> t.service_id, block_trip_sequence |-> BlockTripSequence(t, tr, st)]

RebuiltIndices(tr, st, created_at) ==
    LET sq == GroupSequence(tr, st)
    IN  {IndexRow(i, sq[i], tr, st, created_at) : i \in DOMAIN sq}

RebuiltEntries(tr, st) ==
    LET sq == GroupSequence(tr, st)
    IN  {EntryRow(i, t, tr, st) :
            <<i, t>> \in {x \in (DOMAIN sq) \X IndexedTrips(tr) :
                             GroupOf(x[2], st) = sq[x[1]]}}

-----------------------------------------------------------------------------
(* The single-row queries GetActiveTripInBlockAtTime and                   *)
(* GetActiveTripForRouteAtTime                                             *)

StopTimesOfAnySequence(trip_id) == TripStopTimes(trip_id)

\* JOIN stop_times st_first ON ... stop_sequence = (SELECT MIN(stop_sequence) ...)
FirstStopTimes(trip_id) ==
    {st \in TripStopTimes(trip_id) :
        \A o \in TripStopTimes(trip_id) : st.stop_sequence <= o.stop_sequence}

\* JOIN stop_times st_last ON ... stop_sequence = (SELECT MAX(stop_sequence) ...)
LastStopTimes(trip_id) ==
    {st \in TripStopTimes(trip_id) :
        \A o \in TripStopTimes(trip_id) : st.stop_sequence >= o.stop_sequence}

BlockIntervalTestOpenEnd(first, last, current_time) ==
    first.departure_time <= current_time /\ last.arrival_time > current_time

BlockIntervalTest(first, last, current_time) ==
    first.departure_time <= current_time /\ last.arrival_time >= current_time

ActiveTripInBlockRows(block_id, service_ids, current_time) ==
    UNION {
        {[id |-> t.id, departure_time |-> f.departure_time] :
            <<f, l>> \in {x \in FirstStopTimes(t.id) \X LastStopTimes(t.id) :
                            BlockIntervalTest(x[1], x[2], current_time)}} :
        t \in {u \in trips : u.block_id = block_id /\ u.service_id \in service_ids}}

RouteIntervalTest(first, last, current_time, from_time) ==
    first.departure_time <= current_time /\ last.arrival_time >= from_time

ActiveTripForRouteRowsOfAnyTrip(index_ids, route_id, service_ids, current_time, from_time) ==
    UNION {
        {[id |-> t.id, departure_time |-> f.departure_time] :
            <<f, l>> \in {y \in FirstStopTimes(t.id) \X LastStopTimes(t.id) :
                            RouteIntervalTest(y[1], y[2], current_time, from_time)}} :
        t \in {u \in trips : u.route_id = route_id /\ u.service_id \in service_ids}}

ActiveTripForRouteRows(index_ids, route_id, service_ids, current_time, from_time) ==
    UNION {
        {[id |-> x[1].id, departure_time |-> f.departure_time] :
            <<f, l>> \in {y \in FirstStopTimes(x[1].id) \X LastStopTimes(x[1].id) :
                            RouteIntervalTest(y[1], y[2], current_time, from_time)}} :
        x \in {z \in trips \X block_trip_entry :
                  /\ z[1].id = z[2].trip_id
                  /\ z[2].block_trip_index_id \in index_ids
                  /\ z[1].route_id = route_id
                  /\ z[2].service_id \in service_ids}}

\* ORDER BY st_first.departure_time ASC LIMIT 1: the order names no second
\* key, so any row of the least departure time may come first
FirstByDepartureAsc(rows) ==
    {r \in rows : \A o \in rows : r.departure_time <= o.departure_time}

\* ORDER BY st_first.departure_time DESC LIMIT 1
FirstByDepartureDesc(rows) ==
    {r \in rows : \A o \in rows : r.departure_time >= o.departure_time}

QueryRowOneNilWhenEmpty(first) ==
    IF first = {} THEN {[trip |-> "", err |-> "nil"]}
    ELSE {[trip |-> r.id, err |-> "nil"] : r \in first}

\* a :one query scans the first row of the result; without a row the scan
\* fails with sql.ErrNoRows and the zero value is returned
QueryRowOne(first) ==
    IF first = {} THEN {[trip |-> "", err |-> ErrNoRows]}
    ELSE {[trip |-> r.id, err |-> "nil"] : r \in first}

GetActiveTripInBlockAtTime(block_id, service_ids, current_time) ==
    \E out \in QueryRowOne(FirstByDepartureAsc(
                   ActiveTripInBlockRows(block_id, service_ids, current_time))) :
        tripQuery' = [kind |-> "block", target |-> block_id,
                      current_time |-> current_time, from_time |-> current_time,
                      service_ids |-> service_ids, index_ids |-> {},
                      trip |-> out.trip, err |-> out.err]

GetActiveTripForRouteAtTime(index_ids, route_id, service_ids, current_time, from_time) ==
    \E out \in QueryRowOne(FirstByDepartureDesc(
                   ActiveTripForRouteRows(index_ids, route_id, service_ids,
                                          current_time, from_time))) :
        tripQuery' = [kind |-> "route", target |-> route_id,
                      current_time |-> current_time, from_time |-> from_time,
                      service_ids |-> service_ids, index_ids |-> index_ids,
                      trip |-> out.trip, err |-> out.err]

-----------------------------------------------------------------------------
(* GetBlockTripIndexIDsForRoute and GetBlockTripIndexIDsForBlocks *)

\* FROM block_trip_index bti JOIN block_trip_entry bte ON bti.id =
\* bte.block_trip_index_id JOIN trips t ON bte.trip_id = t.id
\* WHERE t.route_id = route_id AND bte.service_id IN (service_ids)
BlockTripIndexIDsForRouteRows(route_id, service_ids) ==
    {x[1].id : x \in {y \in block_trip_index \X block_trip_entry \X trips :
                          /\ y[1].id = y[2].block_trip_index_id
                          /\ y[2].trip_id = y[3].id
                          /\ y[3].route_id = route_id
                          /\ y[2].service_id \in service_ids}}

\* FROM block_trip_entry bte WHERE bte.block_id IN (block_ids)
\* AND bte.service_id IN (service_ids)
BlockTripIndexIDsForBlocksRows(block_ids, service_ids) ==
    {e.block_trip_index_id : e \in {y \in block_trip_entry :
                                        /\ y.block_id \in block_ids
                                        /\ y.service_id \in service_ids}}

OrderedByIDDescending(ids) ==
    LET n == Cardinality(ids)
    IN  CHOOSE sq \in [1..n -> ids] : \A i, j \in 1..n : i < j => sq[i] > sq[j]

\* SELECT DISTINCT id ... ORDER BY id: each id once, the least first
OrderedByID(ids) ==
    LET n == Cardinality(ids)
    IN  CHOOSE sq \in [1..n -> ids] : \A i, j \in 1..n : i < j => sq[i] < sq[j]

GetBlockTripIndexIDsForRoute(route_id, service_ids) ==
    indexQuery' = [indexQuery EXCEPT !.route =
        [asked |-> TRUE, route_id |-> route_id, service_ids |-> service_ids,
         ids |-> OrderedByID(BlockTripIndexIDsForRouteRows(route_id, service_ids))]]

GetBlockTripIndexIDsForBlocks(block_ids, service_ids) ==
    indexQuery' = [indexQuery EXCEPT !.blocks =
        [asked |-> TRUE, block_ids |-> block_ids, service_ids |-> service_ids,
         ids |-> OrderedByID(BlockTripIndexIDsForBlocksRows(block_ids, service_ids))]]

-----------------------------------------------------------------------------
(* GetStopTimesForStopInWindow *)

BetweenExclusive(x, lo, hi) == x > lo /\ x < hi

Between(x, lo, hi) == x >= lo /\ x <= hi

StopTimesForStopInWindowRows(stop_id, window_start, window_end) ==
    {[trip_id |-> x[1].trip_id, stop_sequence |-> x[1].stop_sequence,
      stop_id |-> x[1].stop_id, arrival_time |-> x[1].arrival_time,
      departure_time |-> x[1].departure_time, route_id |-> x[2].route_id,
      service_id |-> x[2].service_id, block_id |-> x[2].block_id] :
        x \in {y \in stop_times \X trips :
                  /\ y[1].trip_id = y[2].id
                  /\ y[1].stop_id = stop_id
                  /\ \/ Between(y[1].arrival_time, window_start, window_end)
                     \/ Between(y[1].departure_time, window_start, window_end)}}

\* ORDER BY st.arrival_time: every listing of the rows by ascending arrival
OrderedByArrival(rows) ==
    LET n == Cardinality(rows)
    IN  {sq \in [1..n -> rows] :
            /\ \A i, j \in 1..n : i # j => sq[i] # sq[j]
            /\ \A i, j \in 1..n : i < j => sq[i].arrival_time <= sq[j].arrival_time}

GetStopTimesForStopInWindow(stop_id, window_start, window_end) ==
    \E sq \in OrderedByArrival(
                  StopTimesForStopInWindowRows(stop_id, window_start, window_end)) :
        windowQuery' = [stop_id |-> stop_id, window_start |-> window_start,
                        window_end |-> window_end, rows |-> sq, err |-> "nil"]

-----------------------------------------------------------------------------
(* The GTFS manager's lock, the REST handlers that read the manager and    *)
(* the import pipeline that updates the schedule and rebuilds the index    *)

Workers == {"w1", "w2"}

\* schedule updates the import pipeline makes over a run
MaxUpdates == 1

\* Rebuild calls over a run
MaxRebuilds == 2

Unlocked == [readers |-> {}, writer |-> FALSE]

Idle == [handler |-> "", pc |-> 0, log |-> <<>>]

NoRebuild ==
    [pc |-> "idle", updates |-> 0, rebuilds |-> 0, next_group |-> 0, pending |-> {},
     started_at |-> 0, changed |-> FALSE, outcome |-> "none", failed_at |-> "",
     before |-> <<{}, {}>>]

\* sync.RWMutex: RLock waits while a writer holds the lock
RLockAllowedDuringWrite(m) == TRUE

RLockAllowed(m) == ~m.writer

LockAllowedWhileLocked(m) == TRUE

\* sync.RWMutex: Lock waits for the writer and for every read holder
LockAllowed(m) == ~m.writer /\ m.readers = {}

\* what each handler does with the manager, in program order: "RLock" is
\* api.GtfsManager.RLock() with its deferred RUnlock, every other step one
\* read of the manager's state
routesForAgencyHandler == <<"FindAgency", "RoutesForAgencyID">>

routeIDsForAgencyHandler == <<"RLock", "FindAgency", "GetRouteIDsForAgency">>

stopIDsForAgencyHandler == <<"RLock", "FindAgency", "GetStopIDsForAgency">>

stopsForAgencyHandler ==
    <<"RLock", "FindAgency", "GetStopIDsForAgency", "GetStopsByIDs",
      "GetRouteIDsForStops">>

vehiclesForAgencyHandler == <<"RLock", "FindAgency", "VehiclesForAgencyID", "GetRoute">>

agenciesWithCoverageHandler == <<"RLock", "ListAgencies", "GetRegionBounds">>

routeSearchHandler == <<"RLock", "SearchRoutes", "GetAgencies">>

\* the active-trip matcher of a route: a query like any other, holding the
\* read lock for its duration and reading the index twice
FindActiveTripForRoute ==
    <<"RLock", "GetBlockTripIndexIDsForRoute", "GetActiveTripForRouteAtTime">>

RestHandlers ==
    {"routesForAgencyHandler", "routeIDsForAgencyHandler", "stopIDsForAgencyHandler",
     "stopsForAgencyHandler", "vehiclesForAgencyHandler",
     "agenciesWithCoverageHandler", "routeSearchHandler"}

Handlers == RestHandlers \cup {"FindActiveTripForRoute"}

Program(h) ==
    CASE h = "routesForAgencyHandler" -> routesForAgencyHandler
      [] h = "routeIDsForAgencyHandler" -> routeIDsForAgencyHandler
      [] h = "stopIDsForAgencyHandler" -> stopIDsForAgencyHandler
      [] h = "stopsForAgencyHandler" -> stopsForAgencyHandler
      [] h = "vehiclesForAgencyHandler" -> vehiclesForAgencyHandler
      [] h = "agenciesWithCoverageHandler" -> agenciesWithCoverageHandler
      [] h = "routeSearchHandler" -> routeSearchHandler
      [] h = "FindActiveTripForRoute" -> FindActiveTripForRoute

IndexReads == {"GetBlockTripIndexIDsForRoute", "GetActiveTripForRouteAtTime"}

-----------------------------------------------------------------------------
(* The per-key rate limiter of the REST API: RateLimitMiddleware.  The     *)
(* time of the limiters (time.Now() inside rate.Limiter) is in nanoseconds, *)
(* the unit of time.Duration; the time of lastSeen and of cleanup() is the *)
(* injected clock.Clock, in minutes.                                       *)

\* the goroutines of the HTTP server, in the order in which their requests
\* arrive: each serves one request
Arrivals == <<"g1", "g2", "g3">>

Goroutines == {Arrivals[i] : i \in DOMAIN Arrivals}

\* nanoseconds the clock advances over a run
MaxNow == 1

RatesPerSecond == {0, 1, 2}

Intervals == {1, 2}

ExemptLists == {<<>>, <<" A ", "">>}

APIKeys == {"A", "org.onebusaway.iphone"}

\* a request without the key parameter, with an empty one, with a key
HTTPRequests ==
    {[has_key |-> FALSE, key |-> ""]} \cup
    {[has_key |-> TRUE, key |-> k] : k \in {""} \cup APIKeys}

StatusOK == 200

StatusTooManyRequests == 429

\* rate.Inf: every event is allowed, whatever the burst
Inf == [kind |-> "Inf", every |-> 0]

\* rate.Limit(0): no token is ever added
NoEvents == [kind |-> "0", every |-> 0]

\* rate.Every(interval): rate.Inf for an interval <= 0, else one token per interval
Every(interval) ==
    IF interval <= 0 THEN Inf ELSE [kind |-> "Every", every |-> interval]

\* strings.TrimSpace on the keys of ExemptLists
TrimSpace(key) == IF key = " A " THEN "A" ELSE key

ExemptMapWithIPhoneKey(exemptKeys) ==
    ({TrimSpace(exemptKeys[i]) : i \in DOMAIN exemptKeys} \ {""})
        \cup {"org.onebusaway.iphone"}

\* exemptMap[trimmedKey] = true for every key of the list that is not blank
ExemptMap(exemptKeys) ==
    {TrimSpace(exemptKeys[i]) : i \in DOMAIN exemptKeys} \ {""}

\* interval / time.Duration(ratePerSecond) is an integer division
NewRateLimitMiddleware(ratePerSecond, interval, exemptKeys) ==
    [rateLimit |-> IF ratePerSecond <= 0
                       THEN (IF ratePerSecond = 0 THEN NoEvents ELSE Inf)
                       ELSE Every(interval \div ratePerSecond),
     burstSize |-> ratePerSecond,
     exemptKeys |-> ExemptMap(exemptKeys),
     args |-> [ratePerSecond |-> ratePerSecond, interval |-> interval,
               exemptKeys |-> exemptKeys]]

NoLimiters == [k \in {} |-> 0]

NotServing ==
    [pc |-> "idle", apiKey |-> "", limiter |-> 0,
     request |-> [has_key |-> FALSE, key |-> ""]]

\* the goroutines that call Stop or Shutdown
Stoppers == {"s1", "s2"}

NotStopping == [pc |-> "idle", calls |-> 0]

\* no request has reached the middleware, and nobody has stopped it: go
\* middleware.cleanup() waits in its select
NoRequestYet ==
    /\ limiters = NoLimiters
    /\ allocated = <<>>
    /\ rl_mu = Unlocked
    /\ serving = [g \in Goroutines |-> NotServing]
    /\ now = 0
    /\ responses = <<>>
    /\ clock = 0
    /\ stopChan = [closed |-> FALSE, closes |-> 0]
    /\ stopOnce = [done |-> FALSE, m |-> ""]
    /\ cleanupTick = [stopped |-> FALSE, C |-> 0, sent |-> 0]
    /\ cleanupGoroutine = [pc |-> "select"]
    /\ evictions = <<>>
    /\ stoppers = [s \in Stoppers |-> NotStopping]

MiddlewareAtRest ==
    /\ rl = NewRateLimitMiddleware(1, 1, <<>>)
    /\ NoRequestYet

QueryGet(r) == IF r.has_key THEN r.key ELSE ""

APIKeyOfAsSent(r) == QueryGet(r)

\* apiKey := r.URL.Query().Get("key"); if apiKey == "" { apiKey = "__no_key__" }
APIKeyOf(r) == IF QueryGet(r) = "" THEN "__no_key__" ELSE QueryGet(r)

\* a limiter's tokens are kept in nanoseconds of credit: one token is worth
\* limit.every of them, so the refill of rate.Limiter is exact in integers
TokenCost(limit) == IF limit.kind = "Every" THEN limit.every ELSE 1

\* rate.NewLimiter(r, b): the bucket starts with b tokens
NewLimiter(limit, burst, key, waiting) ==
    [limit |-> limit, burst |-> burst, tokens |-> burst * TokenCost(limit),
     last |-> now, api_key |-> key, waiting |-> waiting]

Least(a, b) == IF a <= b THEN a ELSE b

TokensWithoutRefill(lim, t) == lim.tokens

\* the tokens of the limiter at time t: tokens + elapsed * limit, at most burst
TokensAt(lim, t) ==
    IF lim.limit.kind = "Every"
        THEN Least(lim.burst * TokenCost(lim.limit), lim.tokens + (t - lim.last))
        ELSE lim.tokens

\* limiter.Allow(): rate.Inf allows every event; otherwise an event takes one
\* token, and is refused, leaving the limiter as it was, when less is there
AllowOK(lim, t) ==
    lim.limit.kind = "Inf" \/ TokensAt(lim, t) >= TokenCost(lim.limit)

AfterAllow(lim, t) ==
    IF lim.limit.kind # "Inf" /\ AllowOK(lim, t)
        THEN [lim EXCEPT !.tokens = TokensAt(lim, t) - TokenCost(lim.limit),
                         !.last = t]
        ELSE lim

Response(r, key, status, next_called, limiter) ==
    [request |-> r, api_key |-> key, status |-> status, next_called |-> next_called,
     limiter |-> limiter, at |-> now]

Served == [NotServing EXCEPT !.pc = "done"]

InFlight == {g \in Goroutines : serving[g].pc \notin {"idle", "done"}}

\* the goroutines that are serving a request of the key, g aside
OthersServing(g, key) == {o \in InFlight \ {g} : serving[o].apiKey = key}

\* the goroutines that wait in rl.mu.Lock() with a request of the key, g aside
WaitingForLock(g, key) ==
    {o \in OthersServing(g, key) : serving[o].pc = "getLimiter"}

\* the handler up to, and without, getLimiter: an exempt key goes straight
\* to next.ServeHTTP
rateLimitHandler(g, r) ==
    /\ serving[g].pc = "idle"
    /\ \A i, j \in DOMAIN Arrivals :
           (Arrivals[i] = g /\ j < i) => serving[Arrivals[j]].pc # "idle"
    /\ IF APIKeyOf(r) \in rl.exemptKeys
           THEN /\ responses' = Append(responses,
                                  Response(r, APIKeyOf(r), StatusOK, TRUE, 0))
                /\ serving' = [serving EXCEPT ![g] = Served]
           ELSE /\ serving' = [serving EXCEPT ![g] =
                                  [pc |-> "getLimiter", apiKey |-> APIKeyOf(r),
                                   limiter |-> 0, request |-> r]]
                /\ UNCHANGED responses
    /\ UNCHANGED <<rl, limiters, allocated, rl_mu, now>>

\* rl.mu.Lock(), then if client, exists := rl.limiters[apiKey]; exists: the
\* lastSeen is set, the limiter returned and the deferred Unlock runs
getLimiterLookup(g) ==
    /\ serving[g].pc = "getLimiter"
    /\ LockAllowed(rl_mu)
    /\ IF serving[g].apiKey \in DOMAIN limiters
           THEN /\ limiters' = [limiters EXCEPT ![serving[g].apiKey].lastSeen = clock]
                /\ serving' = [serving EXCEPT
                                  ![g].pc = "Allow",
                                  ![g].limiter = limiters[serving[g].apiKey].limiter]
                /\ UNCHANGED rl_mu
           ELSE /\ serving' = [serving EXCEPT ![g].pc = "NewLimiter"]
                /\ rl_mu' = [rl_mu EXCEPT !.writer = TRUE]
                /\ UNCHANGED limiters
    /\ UNCHANGED <<rl, allocated, now, responses>>

\* limiter := rate.NewLimiter(...); rl.limiters[apiKey] = &rateLimitClient{...}
getLimiterCreate(g) ==
    /\ serving[g].pc = "NewLimiter"
    /\ allocated' = Append(allocated,
                       NewLimiter(rl.rateLimit, rl.burstSize, serving[g].apiKey,
                                  Cardinality(WaitingForLock(g, serving[g].apiKey))))
    /\ limiters' = [k \in DOMAIN limiters \cup {serving[g].apiKey} |->
                       IF k = serving[g].apiKey
                           THEN [limiter |-> Len(allocated) + 1, lastSeen |-> clock]
                           ELSE limiters[k]]
    /\ serving' = [serving EXCEPT ![g].pc = "Allow", ![g].limiter = Len(allocated) + 1]
    /\ rl_mu' = [rl_mu EXCEPT !.writer = FALSE]
    /\ UNCHANGED <<rl, now, responses>>

\* if !limiter.Allow() { rl.sendRateLimitExceeded(w, r); return }
\* next.ServeHTTP(w, r)
Allow(g) ==
    /\ serving[g].pc = "Allow"
    /\ LET lim == allocated[serving[g].limiter]
           ok == AllowOK(lim, now)
       IN  /\ allocated' = [allocated EXCEPT ![serving[g].limiter] = AfterAllow(lim, now)]
           /\ responses' = Append(responses,
                  Response(serving[g].request, serving[g].apiKey,
                           IF ok THEN StatusOK ELSE StatusTooManyRequests, ok,
                           serving[g].limiter))
    /\ serving' = [serving EXCEPT ![g] = Served]
    /\ UNCHANGED <<rl, limiters, rl_mu, now>>

\* a nanosecond passes
Advance ==
    /\ now < MaxNow
    /\ now' = now + 1
    /\ UNCHANGED <<rl, limiters, allocated, rl_mu, serving, responses>>

\* threshold := 10 * time.Minute
CleanupThreshold == 10

\* the ticks the ticker sends over a run
MaxTicks == 1

\* the calls of Stop or Shutdown one goroutine makes, one after the other
MaxStopCalls == 2

\* the minutes the clock advances in one step, and over a run
ClockSteps == {5, 6}

MaxClock == 11

\* the injected clock moves on: MockClock.Advance, or time passing
AdvanceClock(d) ==
    /\ clock + d <= MaxClock
    /\ clock' = clock + d
    /\ UNCHANGED <<rl, limiters, allocated, rl_mu, serving, now, responses>>
    /\ UNCHANGED <<stopChan, stopOnce, cleanupTick, cleanupGoroutine, evictions, stoppers>>

\* the ticker puts a tick into cleanupTick.C, a channel that holds one
Tick ==
    /\ ~cleanupTick.stopped
    /\ cleanupTick.C = 0
    /\ cleanupTick.sent < MaxTicks
    /\ cleanupTick' = [cleanupTick EXCEPT !.C = 1, !.sent = @ + 1]
    /\ UNCHANGED <<rl, limiters, allocated, rl_mu, serving, now, responses>>
    /\ UNCHANGED <<clock, stopChan, stopOnce, cleanupGoroutine, evictions, stoppers>>

NoKeySpared(exempt, key) == FALSE

\* if !rl.exemptKeys[key]
Spared(exempt, key) == key \in exempt

\* the keys one pass deletes: now.Sub(client.lastSeen) > threshold
IdleKeys(ls, exempt, t) ==
    {key \in DOMAIN ls :
        ~Spared(exempt, key) /\ t - ls[key].lastSeen > CleanupThreshold}

\* case <-rl.cleanupTick.C: one pass over rl.limiters under rl.mu.Lock()
cleanupTickCase ==
    /\ cleanupGoroutine.pc = "select"
    /\ cleanupTick.C = 1
    /\ LockAllowed(rl_mu)
    /\ cleanupTick' = [cleanupTick EXCEPT !.C = 0]
    /\ LET gone == IdleKeys(limiters, rl.exemptKeys, clock)
       IN  limiters' = [key \in DOMAIN limiters \ gone |-> limiters[key]]
    /\ evictions' = Append(evictions,
           [at |-> clock, before |-> limiters, after |-> limiters'])
    /\ UNCHANGED <<rl, allocated, rl_mu, serving, now, responses>>
    /\ UNCHANGED <<clock, stopChan, stopOnce, cleanupGoroutine, stoppers>>

\* case <-rl.stopChan: return
cleanupStopCase ==
    /\ cleanupGoroutine.pc = "select"
    /\ stopChan.closed
    /\ cleanupGoroutine' = [cleanupGoroutine EXCEPT !.pc = "exited"]
    /\ UNCHANGED <<rl, limiters, allocated, rl_mu, serving, now, responses>>
    /\ UNCHANGED <<clock, stopChan, stopOnce, cleanupTick, evictions, stoppers>>

\* what each of the Stoppers calls: a test calls rl.Stop(), the owner of
\* the RestAPI api.Shutdown()
Calls == [s1 |-> "Stop", s2 |-> "Shutdown"]

\* a goroutine calls rl.Stop()
Stop(s) ==
    /\ Calls[s] = "Stop"
    /\ stoppers[s].pc = "idle"
    /\ stoppers[s].calls < MaxStopCalls
    /\ stoppers' = [stoppers EXCEPT ![s].pc = "Do"]
    /\ UNCHANGED <<rl, limiters, allocated, rl_mu, serving, now, responses>>
    /\ UNCHANGED <<clock, stopChan, stopOnce, cleanupTick, cleanupGoroutine, evictions>>

\* a goroutine calls api.Shutdown(): api.rateLimiter, set by NewRestAPI, is
\* not nil, so it calls api.rateLimiter.Stop()
Shutdown(s) ==
    /\ Calls[s] = "Shutdown"
    /\ stoppers[s].pc = "idle"
    /\ stoppers[s].calls < MaxStopCalls
    /\ stoppers' = [stoppers EXCEPT ![s].pc = "Do"]
    /\ UNCHANGED <<rl, limiters, allocated, rl_mu, serving, now, responses>>
    /\ UNCHANGED <<clock, stopChan, stopOnce, cleanupTick, cleanupGoroutine, evictions>>

OnceNeverDone(once) == FALSE

\* sync.Once: the function has run to its end
OnceDone(once) == once.done

\* rl.stopOnce.Do(func() {...}): a call returns at once when the Once is
\* done, waits while another call runs the function, and otherwise runs it
OnceDo(s) ==
    /\ stoppers[s].pc = "Do"
    /\ IF OnceDone(stopOnce)
           THEN /\ stoppers' = [stoppers EXCEPT ![s].pc = "idle", ![s].calls = @ + 1]
                /\ UNCHANGED stopOnce
           ELSE /\ stopOnce.m = ""
                /\ stopOnce' = [stopOnce EXCEPT !.m = s]
                /\ stoppers' = [stoppers EXCEPT ![s].pc = "close"]
    /\ UNCHANGED <<rl, limiters, allocated, rl_mu, serving, now, responses>>
    /\ UNCHANGED <<clock, stopChan, cleanupTick, cleanupGoroutine, evictions>>

\* close(rl.stopChan): the close of a closed channel panics
closeStopChan(s) ==
    /\ stoppers[s].pc = "close"
    /\ IF stopChan.closed
           THEN /\ stoppers' = [stoppers EXCEPT ![s].pc = "panic"]
                /\ UNCHANGED stopChan
           ELSE /\ stopChan' = [closed |-> TRUE, closes |-> stopChan.closes + 1]
                /\ stoppers' = [stoppers EXCEPT ![s].pc = "cleanupTick.Stop"]
    /\ UNCHANGED <<rl, limiters, allocated, rl_mu, serving, now, responses>>
    /\ UNCHANGED <<clock, stopOnce, cleanupTick, cleanupGoroutine, evictions>>

\* rl.cleanupTick.Stop(), the end of the function and of the call.  Stop
\* does not close C: a tick it holds is still there, or dropped, with the
\* version of Go
tickerStop(s) ==
    /\ stoppers[s].pc = "cleanupTick.Stop"
    /\ \E left \in {0, cleanupTick.C} :
           cleanupTick' = [cleanupTick EXCEPT !.stopped = TRUE, !.C = left]
    /\ stopOnce' = [done |-> TRUE, m |-> ""]
    /\ stoppers' = [stoppers EXCEPT ![s].pc = "idle", ![s].calls = @ + 1]
    /\ UNCHANGED <<rl, limiters, allocated, rl_mu, serving, now, responses>>
    /\ UNCHANGED <<clock, stopChan, cleanupGoroutine, evictions>>

-----------------------------------------------------------------------------
(* GetScheduleForStopOnDate: the stop times of a stop on the trips whose   *)
(* service runs on the date                                                *)

\* table routes: a row for every route that a trip names
RouteRows == {[id |-> r] : r \in Routes}

\* (@weekday = 'sunday' AND c.sunday = 1) OR ...
NamedWeekdayFlagSet(c, weekday) ==
    \/ weekday = "sunday" /\ c.sunday = 1
    \/ weekday = "monday" /\ c.monday = 1
    \/ weekday = "tuesday" /\ c.tuesday = 1
    \/ weekday = "wednesday" /\ c.wednesday = 1
    \/ weekday = "thursday" /\ c.thursday = 1
    \/ weekday = "friday" /\ c.friday = 1
    \/ weekday = "saturday" /\ c.saturday = 1

\* the service ids of the sub-select base
ScheduleBase(target_date, weekday) ==
    {c.id : c \in {x \in calendar :
                     /\ x.start_date <= target_date
                     /\ x.end_date >= target_date
                     /\ NamedWeekdayFlagSet(x, weekday)}}

\* the service ids of the sub-selects removed (exception_type 2) and added (1)
ScheduleExceptions(target_date, type) ==
    {r.service_id : r \in {x \in calendar_dates :
                              x.date = target_date /\ x.exception_type = type}}

RunsUnlessAdded(service_id, base, removed, added) ==
    service_id \in base /\ service_id \notin removed /\ service_id \notin added

\* (base.service_id IS NOT NULL AND removed.service_id IS NULL)
\* OR added.service_id IS NOT NULL
Runs(service_id, base, removed, added) ==
    (service_id \in base /\ service_id \notin removed) \/ service_id \in added

ScheduleRow(st, t, r) ==
    [trip_id |-> st.trip_id, arrival_time |-> st.arrival_time,
     departure_time |-> st.departure_time, service_id |-> t.service_id,
     route_id |-> r.id]

GetScheduleForStopOnDateRows(stop_id, target_date, weekday, route_ids) ==
    {ScheduleRow(x[1], x[2], x[3]) :
        x \in {y \in stop_times \X trips \X RouteRows :
                  /\ y[1].trip_id = y[2].id
                  /\ y[2].route_id = y[3].id
                  /\ y[1].stop_id = stop_id
                  /\ Runs(y[2].service_id, ScheduleBase(target_date, weekday),
                          ScheduleExceptions(target_date, 2),
                          ScheduleExceptions(target_date, 1))
                  /\ y[3].id \in route_ids}}

\* a :many query; the rows come ordered by r.id, st.arrival_time
GetScheduleForStopOnDate(stop_id, target_date, weekday, route_ids) ==
    scheduleQuery' =
        [asked |-> TRUE, stop_id |-> stop_id, target_date |-> target_date,
         weekday |-> weekday, route_ids |-> route_ids,
         rows |-> GetScheduleForStopOnDateRows(stop_id, target_date, weekday, route_ids)]

-----------------------------------------------------------------------------
(* The pagination of the list handlers: ParsePaginationParams and        *)
(* PaginateSlice of internal/utils/api.go.                                *)

\* the longest list a handler paginates
MaxItems == 3

ItemValues == {"r1", "r2", "r3"}

\* a Go slice: nil or not, and its elements
NilSlice == [nil |-> TRUE, elems |-> <<>>]

\* []T{}
EmptySlice == [nil |-> FALSE, elems |-> <<>>]

Slices ==
    {NilSlice} \cup
    UNION {{[nil |-> FALSE, elems |-> e] : e \in [1..n -> ItemValues]} : n \in 0..MaxItems}

len(s) == Len(s.elems)

\* the largest int; Go's int has 64 bits, this one 12
MaxInt == 2047

\* the sum of two ints, as the machine computes it
Wrap(n) == ((n + MaxInt + 1) % (2 * (MaxInt + 1))) - (MaxInt + 1)

\* no call of ParsePaginationParams or PaginateSlice was made
NoPageQuery == [offset |-> "", limit |-> "", maxCount |-> ""]

NotParsed == [called |-> FALSE, offset |-> 0, limit |-> 0]

NoPageYet ==
    /\ items = NilSlice
    /\ pageQuery = NoPageQuery
    /\ parsed = NotParsed
    /\ pages = <<>>

RestAPIAtRest == MiddlewareAtRest /\ NoPageYet

\* strconv.Atoi on the values the parameters take: the number of a decimal
\* numeral with an optional sign, and an error for any other text and for a
\* number outside int
Atoi(val) ==
    CASE val = "-5" -> [err |-> FALSE, n |-> -5]
      [] val = "0" -> [err |-> FALSE, n |-> 0]
      [] val = "1" -> [err |-> FALSE, n |-> 1]
      [] val = "+2" -> [err |-> FALSE, n |-> 2]
      [] val = "1000" -> [err |-> FALSE, n |-> 1000]
      [] val = "1001" -> [err |-> FALSE, n |-> 1001]
      [] OTHER -> [err |-> TRUE, n |-> 0]

\* the values of a parameter: absent or empty, not a number, numbers, and a
\* number beyond int
ParamValues == {"", "abc", "-5", "0", "1", "+2", "1000", "1001", "99999999999999999999"}

PageQueries == [offset : ParamValues, limit : ParamValues, maxCount : ParamValues]

AnyOffset(n) == TRUE

\* err == nil && parsed >= 0
ValidOffset(n) == n >= 0

\* err == nil && parsed > 0
ValidLimit(n) == n > 0

MaxLimit == 1000

Uncapped(limit) == limit

\* if limit > 1000 { limit = 1000 }
Capped(limit) == IF limit > MaxLimit THEN MaxLimit ELSE limit

\* offset, limit := the values of ParsePaginationParams for the parameters
ParsedOffset(q) ==
    IF q.offset # "" /\ ~Atoi(q.offset).err /\ ValidOffset(Atoi(q.offset).n)
        THEN Atoi(q.offset).n
        ELSE 0

ParsedLimit(q) ==
    Capped(IF q.maxCount # ""
               THEN (IF ~Atoi(q.maxCount).err /\ ValidLimit(Atoi(q.maxCount).n)
                         THEN Atoi(q.maxCount).n
                         ELSE -1)
               ELSE IF q.limit # "" /\ ~Atoi(q.limit).err /\ ValidLimit(Atoi(q.limit).n)
                        THEN Atoi(q.limit).n
                        ELSE -1)

\* offset, limit := utils.ParsePaginationParams(r)
ParsePaginationParams ==
    /\ ~parsed.called
    /\ parsed' = [called |-> TRUE, offset |-> ParsedOffset(pageQuery),
                  limit |-> ParsedLimit(pageQuery)]
    /\ UNCHANGED <<items, pageQuery, pages>>

\* items[lo:hi] panics unless 0 <= lo <= hi <= cap(items), and the lists
\* of the handlers are as long as their capacity
Panic == [panic |-> TRUE, items |-> NilSlice, limitExceeded |-> FALSE]

Returned(s, limitExceeded) == [panic |-> FALSE, items |-> s, limitExceeded |-> limitExceeded]

Slice(s, lo, hi, limitExceeded) ==
    IF 0 <= lo /\ lo <= hi /\ hi <= len(s)
        THEN Returned([nil |-> s.nil, elems |-> SubSeq(s.elems, lo + 1, hi)], limitExceeded)
        ELSE Panic

EndOfOneMore(offset, limit) == Wrap(offset + limit + 1)

\* end := offset + limit
EndOf(offset, limit) == Wrap(offset + limit)

MoreOrNone(end, n) == end <= n

\* if end < len(items)
MoreItems(end, n) == end < n

PaginateSlice(list, offset, limit) ==
    IF offset >= len(list)
        THEN Returned(EmptySlice, FALSE)
        ELSE IF limit = -1
                 THEN Slice(list, offset, len(list), FALSE)
                 ELSE IF MoreItems(EndOf(offset, limit), len(list))
                          THEN Slice(list, offset, EndOf(offset, limit), TRUE)
                          ELSE Slice(list, offset, len(list), FALSE)

\* one call of PaginateSlice on the list, and what it gave
Page(offset, limit) ==
    [offset |-> offset, limit |-> limit, result |-> PaginateSlice(items, offset, limit)]

\* PaginateSlice called with any offset and limit
PaginateSliceWith(offset, limit) ==
    /\ pages = <<>>
    /\ ~parsed.called
    /\ pages' = <<Page(offset, limit)>>
    /\ UNCHANGED <<items, pageQuery, parsed>>

\* routesForAgency, limitExceeded := utils.PaginateSlice(routesForAgency, offset, limit)
PaginateParsed ==
    /\ parsed.called
    /\ pages = <<>>
    /\ pages' = <<Page(parsed.offset, parsed.limit)>>
    /\ UNCHANGED <<items, pageQuery, parsed>>

\* a client asks for the first page of L items, and for the next one as
\* long as limitExceeded tells it that more are there
FirstPage(L) ==
    /\ pages = <<>>
    /\ ~parsed.called
    /\ pages' = <<Page(0, L)>>
    /\ UNCHANGED <<items, pageQuery, parsed>>

NextPage ==
    /\ pages # <<>>
    /\ ~pages[Len(pages)].result.panic
    /\ pages[Len(pages)].result.limitExceeded
    /\ pages' = Append(pages,
                  Page(pages[Len(pages)].offset + pages[Len(pages)].limit,
                       pages[Len(pages)].limit))
    /\ UNCHANGED <<items, pageQuery, parsed>>

-----------------------------------------------------------------------------
(* The active-trip queries over every imported schedule.  The queries     *)
(* leave the tables alone, so one call is observed per behaviour.          *)

ScheduleTrips(f) == {TripRow(id, f[id]) : id \in TripIDs}

ScheduleStopTimes(f) == UNION {StopTimeRows(id, f[id].pattern) : id \in TripIDs}

ScheduleIs(f) ==
    /\ trips = ScheduleTrips(f)
    /\ stop_times = ScheduleStopTimes(f)
    /\ block_trip_index = RebuiltIndices(trips, stop_times, 0)
    /\ block_trip_entry = RebuiltEntries(trips, stop_times)

NoCalendar ==
    /\ calendar = {}
    /\ calendar_dates = {}
    /\ activeQuery = NoQuery

\* no request is being served and no update is under way
ManagerAtRest ==
    /\ mu = Unlocked
    /\ requests = [w \in Workers |-> Idle]
    /\ rebuild = NoRebuild
    /\ committed = {<<block_trip_index, block_trip_entry>>}

BlockInit ==
    /\ \E f \in Schedules({"R1"}, Services, Blocks, StopPatterns) : ScheduleIs(f)
    /\ tripQuery = NoTripQuery
    /\ windowQuery = NoWindowQuery
    /\ indexQuery = NoIndexQuery
    /\ scheduleQuery = NoScheduleQuery
    /\ NoCalendar
    /\ ManagerAtRest
    /\ RestAPIAtRest

BlockNext ==
    /\ tripQuery = NoTripQuery
    /\ \E b \in QueryBlocks, a \in ActiveSets, t \in QueryTimes :
           GetActiveTripInBlockAtTime(b, a, t)
    /\ UNCHANGED <<calVars, tripTables, windowQuery, indexQuery, scheduleQuery, lockVars, restVars>>

SpecBlock == BlockInit /\ [][BlockNext]_vars

RouteInit ==
    /\ \E f \in Schedules(Routes, Services, Blocks, StopPatterns) : ScheduleIs(f)
    /\ tripQuery = NoTripQuery
    /\ windowQuery = NoWindowQuery
    /\ indexQuery = NoIndexQuery
    /\ scheduleQuery = NoScheduleQuery
    /\ NoCalendar
    /\ ManagerAtRest
    /\ RestAPIAtRest

RouteNext ==
    /\ tripQuery = NoTripQuery
    /\ \E ids \in IndexIDSets, r \in Routes, a \in ActiveSets \ {{}},
          t \in {29450, 29600}, from \in FromTimes :
           GetActiveTripForRouteAtTime(ids, r, a, t, from)
    /\ UNCHANGED <<calVars, tripTables, windowQuery, indexQuery, scheduleQuery, lockVars, restVars>>

SpecRoute == RouteInit /\ [][RouteNext]_vars

-----------------------------------------------------------------------------
(* The calendar resolver over tables filled and cleared by the importer *)

CalInit ==
    /\ calendar = {}
    /\ calendar_dates = {}
    /\ activeQuery = NoQuery
    /\ trips = {}
    /\ stop_times = {}
    /\ block_trip_index = {}
    /\ block_trip_entry = {}
    /\ tripQuery = NoTripQuery
    /\ windowQuery = NoWindowQuery
    /\ indexQuery = NoIndexQuery
    /\ scheduleQuery = NoScheduleQuery
    /\ ManagerAtRest
    /\ RestAPIAtRest

CalNext ==
    \/ \E id \in Services, flags \in FlagPatterns, start \in StartDates, end \in EndDates :
           CreateCalendar(id, flags, start, end) /\ UNCHANGED <<tripVars, lockVars, restVars>>
    \/ \E s \in Services, d \in Dates, type \in {1, 2} :
           CreateCalendarDate(s, d, type) /\ UNCHANGED <<tripVars, lockVars, restVars>>
    \/ ClearCalendar /\ UNCHANGED <<tripVars, lockVars, restVars>>
    \/ \E d \in Dates :
           /\ GetActiveServiceIDsForDate(d)
           /\ UNCHANGED <<calendar, calendar_dates, tripVars, lockVars, restVars>>

SpecCal == CalInit /\ [][CalNext]_vars

-----------------------------------------------------------------------------
(* The calendar resolver's claims.  The sets below restate the claims'     *)
(* Base, Removed and Added from the tables, with the weekday of each date  *)
(* read off the civil calendar rather than computed.                       *)

CivilWeekday(d) ==
    CASE d = 20250105 -> "sunday"
      [] d = 20250106 -> "monday"
      [] d = 20250113 -> "monday"
      [] d = 20251231 -> "wednesday"
      [] OTHER -> "none"

RunsOn(c, day) ==
    \/ day = "sunday" /\ c.sunday = 1
    \/ day = "monday" /\ c.monday = 1
    \/ day = "wednesday" /\ c.wednesday = 1

Base(d) ==
    {s \in Services : \E c \in calendar :
        c.id = s /\ c.start_date <= d /\ d <= c.end_date /\ RunsOn(c, CivilWeekday(d))}

Removed(d) ==
    {s \in Services : \E r \in calendar_dates :
        r.service_id = s /\ r.date = d /\ r.exception_type = 2}

Added(d) ==
    {s \in Services : \E r \in calendar_dates :
        r.service_id = s /\ r.date = d /\ r.exception_type = 1}

HasException(s, d) == \E r \in calendar_dates : r.service_id = s /\ r.date = d

Asked == activeQuery.date # 0

\* C1: ActiveServiceIDs(d) is exactly (Base(d) minus Removed(d)) union
\* Added(d), each service id returned once
C1_ActiveIsBaseMinusRemovedPlusAdded ==
    Asked =>
        \A s \in Services :
            activeQuery.rows[s] =
                IF s \in (Base(activeQuery.date) \ Removed(activeQuery.date))
                            \cup Added(activeQuery.date)
                THEN 1 ELSE 0

\* a service that is both in the weekly base and added on the date is
\* returned, once
C1_Witness ==
    /\ Asked
    /\ \E s \in Base(activeQuery.date) \cap Added(activeQuery.date) :
           activeQuery.rows[s] = 1
    /\ \E s \in Base(activeQuery.date) \cap Removed(activeQuery.date) :
           activeQuery.rows[s] = 0

\* C2: a service with a 'removed' row on d never appears in
\* ActiveServiceIDs(d), even when its calendar row matches d
C2_RemovedNeverActive ==
    Asked =>
        \A s \in Removed(activeQuery.date) : activeQuery.rows[s] = 0

C2_Witness ==
    /\ Asked
    /\ \E s \in Removed(activeQuery.date) \cap Base(activeQuery.date) :
           activeQuery.rows[s] = 0

\* C3: a service with an 'added' row on d appears in ActiveServiceIDs(d)
\* whether or not a calendar row exists, covers d or runs on d's weekday
C3_AddedAlwaysActive ==
    Asked =>
        \A s \in Added(activeQuery.date) : activeQuery.rows[s] >= 1

\* one added service without any calendar row, another whose calendar row
\* excludes the date
C3_Witness ==
    /\ Asked
    /\ \E s \in Added(activeQuery.date) :
           /\ \A c \in calendar : c.id # s
           /\ activeQuery.rows[s] >= 1
    /\ \E s \in Added(activeQuery.date) :
           /\ \E c \in calendar : c.id = s /\ c.end_date < activeQuery.date
           /\ activeQuery.rows[s] >= 1

MondaysOf2025(s) ==
    [id |-> s, monday |-> 1, tuesday |-> 0, wednesday |-> 0, thursday |-> 0,
     friday |-> 0, saturday |-> 0, sunday |-> 0,
     start_date |-> 20250101, end_date |-> 20251231]

RemovedOnJan6(s) ==
    /\ MondaysOf2025(s) \in calendar
    /\ [service_id |-> s, date |-> 20250106, exception_type |-> 2] \in calendar_dates
    /\ ~HasException(s, 20250113)

\* C4: a service without an exception on d is active exactly when its
\* calendar row covers d (both ends inclusive) and runs on d's weekday; no
\* matching row gives the empty result and no error; the Mondays-of-2025
\* service removed on 20250106 is absent that day and present on 20250113
C4_WeeklyPatternDecidesWithoutException ==
    Asked =>
        /\ \A s \in Services :
               ~HasException(s, activeQuery.date) =>
                   (activeQuery.rows[s] >= 1 <=> s \in Base(activeQuery.date))
        /\ (Base(activeQuery.date) = {} /\ Added(activeQuery.date) = {}) =>
               (RowSet(activeQuery.rows) = {} /\ activeQuery.err = "nil")
        /\ \A s \in Services :
               RemovedOnJan6(s) =>
                   /\ activeQuery.date = 20250106 => activeQuery.rows[s] = 0
                   /\ activeQuery.date = 20250113 => activeQuery.rows[s] = 1

\* the scenario's service on the following Monday, beside a service that is
\* active on the last day of its range
C4_Witness ==
    /\ Asked
    /\ \/ /\ activeQuery.date = 20250113
          /\ RemovedOnJan6("s1")
          /\ activeQuery.rows["s1"] = 1
       \/ /\ activeQuery.date = 20251231
          /\ \E c \in calendar :
                 /\ c.end_date = 20251231 /\ c.wednesday = 1
                 /\ ~HasException(c.id, 20251231)
                 /\ activeQuery.rows[c.id] = 1

-----------------------------------------------------------------------------
(* The active-trip queries' claims.  First-departure and last-arrival are  *)
(* the glossary's: the least departure and the greatest arrival among a    *)
(* trip's stop times.                                                      *)

HasStopTimes(id) == TripStopTimes(id) # {}

FirstDeparture(id) ==
    (CHOOSE st \in TripStopTimes(id) :
        \A o \in TripStopTimes(id) : st.departure_time <= o.departure_time).departure_time

LastArrival(id) ==
    (CHOOSE st \in TripStopTimes(id) :
        \A o \in TripStopTimes(id) : st.arrival_time >= o.arrival_time).arrival_time

\* arrival and departure never decrease along the stop sequence
WellFormedTrip(id) ==
    \A a, b \in TripStopTimes(id) :
        /\ a.arrival_time <= a.departure_time
        /\ a.stop_sequence < b.stop_sequence => a.departure_time <= b.arrival_time

BlockTrips(block, active) ==
    {t.id : t \in {u \in trips : u.block_id = block /\ u.service_id \in active}}

BlockMatches(block, t, active) ==
    {id \in BlockTrips(block, active) :
        HasStopTimes(id) /\ FirstDeparture(id) <= t /\ t <= LastArrival(id)}

AskedBlock == tripQuery.kind = "block"

AskedRoute == tripQuery.kind = "route"

\* the block query answers exactly when a trip matches, with a matching
\* trip of the earliest first-departure
BlockQueryEarliestMatching ==
    AskedBlock =>
        LET M == BlockMatches(tripQuery.target, tripQuery.current_time,
                              tripQuery.service_ids)
        IN  /\ tripQuery.trip # "" <=> M # {}
            /\ M # {} =>
                   /\ tripQuery.trip \in M
                   /\ \A m \in M : FirstDeparture(tripQuery.trip) <= FirstDeparture(m)

\* C5: FindActiveTripInBlock answers exactly when a trip of the block with
\* an active service has first-departure <= t <= last-arrival; it returns
\* the match of the earliest first-departure and, among matches that share
\* it, the one with the smallest trip identifier
C5_EarliestMatchingSmallestID ==
    /\ BlockQueryEarliestMatching
    /\ AskedBlock =>
           \A m \in BlockMatches(tripQuery.target, tripQuery.current_time,
                                 tripQuery.service_ids) :
               (tripQuery.trip # "" /\ FirstDeparture(m) = FirstDeparture(tripQuery.trip))
                   => TripRank(tripQuery.trip) <= TripRank(m)

\* the trips of the block that the active set selects belong to one service,
\* are well formed, and their closed intervals are pairwise disjoint
WellFormedBlock(block, active) ==
    LET B == BlockTrips(block, active)
    IN  /\ \A id \in B : HasStopTimes(id) /\ WellFormedTrip(id)
        /\ \A t, u \in trips :
               (t.id \in B /\ u.id \in B) => t.service_id = u.service_id
        /\ \A a, b \in B :
               a # b => \/ LastArrival(a) < FirstDeparture(b)
                        \/ LastArrival(b) < FirstDeparture(a)

\* t lies strictly between a trip's last arrival and the next trip's first
\* departure
InGap(block, active, t) ==
    LET B == BlockTrips(block, active)
    IN  \E a, b \in B :
            /\ LastArrival(a) < t /\ t < FirstDeparture(b)
            /\ ~\E c \in B : /\ FirstDeparture(a) < FirstDeparture(c)
                             /\ FirstDeparture(c) < FirstDeparture(b)

\* block B1 of spec section 8: T1 over 28800..29400, T2 over 29500..30300,
\* both of service s1, and no other trip of the block
SectionEightBlock ==
    /\ [id |-> "T1", route_id |-> "R1", service_id |-> "s1", block_id |-> "B1"] \in trips
    /\ [id |-> "T2", route_id |-> "R1", service_id |-> "s1", block_id |-> "B1"] \in trips
    /\ \A t \in trips : t.id = "T3" => t.block_id = NoBlock
    /\ FirstDeparture("T1") = 28800 /\ LastArrival("T1") = 29400
    /\ FirstDeparture("T2") = 29500 /\ LastArrival("T2") = 30300

\* C6: in a well-formed block of one active service at most one trip passes
\* the closed interval test; FindActiveTripInBlock returns that trip when t
\* is inside its interval and none when t is in the gap between two trips
C6_WellFormedBlockOneTrip ==
    (AskedBlock /\ WellFormedBlock(tripQuery.target, tripQuery.service_ids)) =>
        LET M == BlockMatches(tripQuery.target, tripQuery.current_time,
                              tripQuery.service_ids)
        IN  /\ Cardinality(M) <= 1
            /\ Cardinality(ActiveTripInBlockRows(tripQuery.target, tripQuery.service_ids,
                                                 tripQuery.current_time)) <= 1
            /\ \A m \in M : tripQuery.trip = m
            /\ InGap(tripQuery.target, tripQuery.service_ids, tripQuery.current_time)
                   => tripQuery.trip = ""
            /\ (SectionEightBlock /\ tripQuery.target = "B1"
                    /\ tripQuery.service_ids = {"s1"}) =>
                   /\ tripQuery.current_time = 29000 => tripQuery.trip = "T1"
                   /\ tripQuery.current_time = 29600 => tripQuery.trip = "T2"
                   /\ tripQuery.current_time = 29450 => tripQuery.trip = ""

\* the gap of the section 8 block: asked at 29450, no trip
C6_Witness ==
    /\ AskedBlock
    /\ SectionEightBlock
    /\ tripQuery.target = "B1"
    /\ tripQuery.service_ids = {"s1"}
    /\ tripQuery.current_time = 29450
    /\ InGap("B1", {"s1"}, 29450)
    /\ tripQuery.trip = ""

\* the trips of the route with an entry of an active service in one of the
\* index ids asked for
RouteTrips(route, active, index_ids) ==
    {t.id : t \in {u \in trips :
        /\ u.route_id = route
        /\ \E e \in block_trip_entry :
               /\ e.trip_id = u.id
               /\ e.service_id \in active
               /\ e.block_trip_index_id \in index_ids}}

RouteMatches(route, current_time, from_time, active, index_ids) ==
    {id \in RouteTrips(route, active, index_ids) :
        /\ HasStopTimes(id)
        /\ FirstDeparture(id) <= current_time
        /\ LastArrival(id) >= from_time}

\* the route query answers exactly when a trip matches, with a matching
\* trip of the latest first-departure
RouteQueryLatestMatching ==
    AskedRoute =>
        LET M == RouteMatches(tripQuery.target, tripQuery.current_time,
                              tripQuery.from_time, tripQuery.service_ids,
                              tripQuery.index_ids)
        IN  /\ tripQuery.trip # "" <=> M # {}
            /\ M # {} =>
                   /\ tripQuery.trip \in M
                   /\ \A m \in M : FirstDeparture(tripQuery.trip) >= FirstDeparture(m)

\* C7: FindActiveTripForRoute returns, among the indexed trips of the route
\* with an active service, first-departure <= currentTime and last-arrival
\* >= fromTime, the one of the latest first-departure, ties broken by trip
\* identifier ascending, and none when no trip matches
C7_LatestMatchingSmallestID ==
    /\ RouteQueryLatestMatching
    /\ AskedRoute =>
           \A m \in RouteMatches(tripQuery.target, tripQuery.current_time,
                                 tripQuery.from_time, tripQuery.service_ids,
                                 tripQuery.index_ids) :
               (tripQuery.trip # "" /\ FirstDeparture(m) = FirstDeparture(tripQuery.trip))
                   => TripRank(tripQuery.trip) <= TripRank(m)

-----------------------------------------------------------------------------
(* Every query path side by side, over a small store: the two single-row   *)
(* queries and the two list queries, one call per behaviour                *)

MondaysOnly(s) ==
    [id |-> s, monday |-> 1, tuesday |-> 0, wednesday |-> 0, thursday |-> 0,
     friday |-> 0, saturday |-> 0, sunday |-> 0,
     start_date |-> 20250101, end_date |-> 20251231]

NothingAsked ==
    /\ tripQuery = NoTripQuery
    /\ windowQuery = NoWindowQuery
    /\ indexQuery = NoIndexQuery
    /\ scheduleQuery = NoScheduleQuery
    /\ activeQuery = NoQuery

QueriesInit ==
    /\ \E f \in Schedules({"R1"}, {"s1"}, Blocks, {EarlyRun, LateRun}) : ScheduleIs(f)
    /\ calendar \in {{}, {MondaysOnly("s1")}}
    /\ calendar_dates = {}
    /\ NothingAsked
    /\ ManagerAtRest
    /\ RestAPIAtRest

QueriesNext ==
    \/ \E b \in QueryBlocks, a \in ActiveSets, t \in QueryTimes :
           /\ NothingAsked
           /\ GetActiveTripInBlockAtTime(b, a, t)
           /\ UNCHANGED <<calVars, tripTables, windowQuery, indexQuery, scheduleQuery, lockVars, restVars>>
    \/ \E ids \in IndexIDSets, r \in Routes, a \in ActiveSets,
          t \in {29450, 29600}, from \in FromTimes :
           /\ NothingAsked
           /\ GetActiveTripForRouteAtTime(ids, r, a, t, from)
           /\ UNCHANGED <<calVars, tripTables, windowQuery, indexQuery, scheduleQuery, lockVars, restVars>>
    \/ \E s \in StopIDs, w \in Windows :
           /\ NothingAsked
           /\ GetStopTimesForStopInWindow(s, w[1], w[2])
           /\ UNCHANGED <<calVars, tripTables, tripQuery, indexQuery, scheduleQuery, lockVars, restVars>>
    \/ \E d \in Dates :
           /\ NothingAsked
           /\ GetActiveServiceIDsForDate(d)
           /\ UNCHANGED <<calendar, calendar_dates, tripVars, lockVars, restVars>>

SpecQueries == QueriesInit /\ [][QueriesNext]_vars

-----------------------------------------------------------------------------
(* What an empty result looks like to the caller *)

QueryMatches ==
    IF AskedBlock
    THEN BlockMatches(tripQuery.target, tripQuery.current_time, tripQuery.service_ids)
    ELSE RouteMatches(tripQuery.target, tripQuery.current_time, tripQuery.from_time,
                      tripQuery.service_ids, tripQuery.index_ids)

ListQueriesEmptyWithoutError ==
    /\ (Asked /\ RowSet(activeQuery.rows) = {}) => activeQuery.err = "nil"
    /\ (windowQuery.stop_id # "" /\ windowQuery.rows = <<>>) => windowQuery.err = "nil"

-----------------------------------------------------------------------------
(* Requests served by the workers *)

NextStep(w) ==
    LET r == requests[w]
    IN  IF r.handler # "" /\ r.pc <= Len(Program(r.handler))
        THEN Program(r.handler)[r.pc]
        ELSE "return"

\* the router hands a request to its handler
Begin(w, h) ==
    /\ requests[w] = Idle
    /\ requests' = [requests EXCEPT ![w] = [handler |-> h, pc |-> 1, log |-> <<>>]]
    /\ UNCHANGED <<mu, rebuild, committed, tripTables>>

\* api.GtfsManager.RLock(); defer api.GtfsManager.RUnlock()
RLock(w) ==
    /\ NextStep(w) = "RLock"
    /\ RLockAllowed(mu)
    /\ mu' = [mu EXCEPT !.readers = @ \cup {w}]
    /\ requests' = [requests EXCEPT ![w].pc = @ + 1]
    /\ UNCHANGED <<rebuild, committed, tripTables>>

\* one read of the manager's state; the log keeps whether the request held
\* the read lock, whether the writer held the lock and, for a read of the
\* index, the index it found and whether a Rebuild was part-way through
Read(w) ==
    LET op == NextStep(w)
        entry == [read |-> op,
                  held |-> w \in mu.readers,
                  writing |-> mu.writer,
                  part_way |-> rebuild.pc \in {"entries_cleared", "populating"},
                  index |-> IF op \in IndexReads
                            THEN <<block_trip_index, block_trip_entry>>
                            ELSE <<>>]
    IN  /\ op \notin {"RLock", "return"}
        /\ requests' = [requests EXCEPT ![w].pc = @ + 1,
                                         ![w].log = Append(@, entry)]
        /\ UNCHANGED <<mu, rebuild, committed, tripTables>>

\* the handler returns, at its end or early (a validation error, an unknown
\* agency, a failed query); the deferred RUnlock runs if RLock was reached
Return(w) ==
    /\ requests[w].handler # ""
    /\ requests' = [requests EXCEPT ![w] = Idle]
    /\ mu' = [mu EXCEPT !.readers = @ \ {w}]
    /\ UNCHANGED <<rebuild, committed, tripTables>>

-----------------------------------------------------------------------------
(* The import pipeline: a schedule update, then Rebuild, under the         *)
(* exclusive lock                                                          *)

\* INSERT OR REPLACE INTO trips
CreateTrip(tr, row) == {t \in tr : t.id # row.id} \cup {row}

\* INSERT OR REPLACE INTO stop_times, once per row
CreateStopTime(st, rows) ==
    {r \in st : \A n \in rows :
        ~(r.trip_id = n.trip_id /\ r.stop_sequence = n.stop_sequence)} \cup rows

\* the pipeline takes the exclusive lock at time at; what the index tables
\* hold then is what a rollback restores, and an update a failed Rebuild
\* left unindexed still counts as a change of the schedule
Lock(at) ==
    /\ rebuild.pc = "idle"
    /\ rebuild.rebuilds < MaxRebuilds
    /\ at >= rebuild.started_at
    /\ LockAllowed(mu)
    /\ mu' = [mu EXCEPT !.writer = TRUE]
    /\ rebuild' = [rebuild EXCEPT !.pc = "locked", !.started_at = at,
                                  !.changed = (rebuild.outcome = "failed" /\ @),
                                  !.outcome = "none", !.failed_at = "",
                                  !.before = <<block_trip_index, block_trip_entry>>]
    /\ UNCHANGED <<requests, committed, tripTables>>

ImportTrip(id, d) ==
    /\ rebuild.pc = "locked"
    /\ rebuild.updates < MaxUpdates
    /\ trips' = CreateTrip(trips, TripRow(id, d))
    /\ stop_times' = CreateStopTime(stop_times, StopTimeRows(id, d.pattern))
    /\ rebuild' = [rebuild EXCEPT !.updates = @ + 1, !.changed = TRUE]
    /\ UNCHANGED <<mu, requests, committed, block_trip_index, block_trip_entry>>

ClearBlockTripEntries ==
    /\ rebuild.pc = "locked"
    /\ block_trip_entry' = {}
    /\ rebuild' = [rebuild EXCEPT !.pc = "entries_cleared"]
    /\ UNCHANGED <<mu, requests, committed, trips, stop_times, block_trip_index>>

ClearBlockTripIndicesKeepsRows ==
    /\ rebuild.pc = "entries_cleared"
    /\ block_trip_index' = block_trip_index
    /\ rebuild' = [rebuild EXCEPT !.pc = "populating", !.next_group = 1]
    /\ UNCHANGED <<mu, requests, committed, trips, stop_times, block_trip_entry>>

ClearBlockTripIndices ==
    /\ rebuild.pc = "entries_cleared"
    /\ block_trip_index' = {}
    /\ rebuild' = [rebuild EXCEPT !.pc = "populating", !.next_group = 1]
    /\ UNCHANGED <<mu, requests, committed, trips, stop_times, block_trip_entry>>

\* RETURNING id: the row id the table hands out
LastIndexID ==
    IF block_trip_index = {} THEN 0
    ELSE (CHOOSE r \in block_trip_index :
              \A o \in block_trip_index : r.id >= o.id).id

CreateBlockTripIndex ==
    LET sq == GroupSequence(trips, stop_times)
        group == sq[rebuild.next_group]
    IN  /\ rebuild.pc = "populating"
        /\ rebuild.pending = {}
        /\ rebuild.next_group \in DOMAIN sq
        /\ block_trip_index' =
               block_trip_index \cup {IndexRow(LastIndexID + 1, group, trips, stop_times,
                                                 rebuild.started_at)}
        /\ rebuild' = [rebuild EXCEPT
               !.next_group = @ + 1,
               !.pending = {t \in IndexedTrips(trips) : GroupOf(t, stop_times) = group}]
        /\ UNCHANGED <<mu, requests, committed, trips, stop_times, block_trip_entry>>

CreateBlockTripEntry(t) ==
    /\ rebuild.pc = "populating"
    /\ t \in rebuild.pending
    /\ block_trip_entry' =
           block_trip_entry \cup {EntryRow(LastIndexID, t, trips, stop_times)}
    /\ rebuild' = [rebuild EXCEPT !.pending = @ \ {t}]
    /\ UNCHANGED <<mu, requests, committed, trips, stop_times, block_trip_index>>

Unlock ==
    /\ rebuild.pc = "populating"
    /\ rebuild.pending = {}
    /\ rebuild.next_group \notin DOMAIN GroupSequence(trips, stop_times)
    /\ mu' = [mu EXCEPT !.writer = FALSE]
    /\ rebuild' = [rebuild EXCEPT !.pc = "idle", !.rebuilds = @ + 1, !.next_group = 0,
                                  !.outcome = "rebuilt"]
    /\ committed' = committed \cup {<<block_trip_index, block_trip_entry>>}
    /\ UNCHANGED <<requests, tripTables>>

\* the schedule in the tables when the server starts, its index built:
\* two legs of block B1 on service s1 and a long run on service s2
StartSchedule ==
    [id \in TripIDs |->
        CASE id = "T1" -> [route_id |-> "R1", service_id |-> "s1",
                           block_id |-> "B1", pattern |-> EarlyRun]
          [] id = "T2" -> [route_id |-> "R1", service_id |-> "s1",
                           block_id |-> "B1", pattern |-> LateRun]
          [] OTHER -> [route_id |-> "R2", service_id |-> "s2",
                       block_id |-> "B1", pattern |-> LongRun]]

\* the trips a schedule update replaces
UpdatedTrips == {"T3"}

LockInit ==
    /\ ScheduleIs(StartSchedule)
    /\ tripQuery = NoTripQuery
    /\ windowQuery = NoWindowQuery
    /\ indexQuery = NoIndexQuery
    /\ scheduleQuery = NoScheduleQuery
    /\ NoCalendar
    /\ ManagerAtRest
    /\ RestAPIAtRest

LockNext ==
    \/ \E w \in Workers, h \in Handlers :
           Begin(w, h) /\ UNCHANGED <<calVars, queryVars, restVars>>
    \/ \E w \in Workers : RLock(w) /\ UNCHANGED <<calVars, queryVars, restVars>>
    \/ \E w \in Workers : Read(w) /\ UNCHANGED <<calVars, queryVars, restVars>>
    \/ \E w \in Workers : Return(w) /\ UNCHANGED <<calVars, queryVars, restVars>>
    \/ Lock(0) /\ UNCHANGED <<calVars, queryVars, restVars>>
    \/ \E id \in UpdatedTrips,
          d \in [route_id : {"R1"}, service_id : {"s1"}, block_id : Blocks,
                 pattern : {EarlyRun, LongRun}] :
           ImportTrip(id, d) /\ UNCHANGED <<calVars, queryVars, restVars>>
    \/ ClearBlockTripEntries /\ UNCHANGED <<calVars, queryVars, restVars>>
    \/ ClearBlockTripIndices /\ UNCHANGED <<calVars, queryVars, restVars>>
    \/ CreateBlockTripIndex /\ UNCHANGED <<calVars, queryVars, restVars>>
    \/ \E t \in trips :
           CreateBlockTripEntry(t) /\ UNCHANGED <<calVars, queryVars, restVars>>
    \/ Unlock /\ UNCHANGED <<calVars, queryVars, restVars>>

SpecLock == LockInit /\ [][LockNext]_vars

\* the statements of a Rebuild leave what the builder computes in one piece
RebuildLeavesRebuiltIndex ==
    (rebuild.pc = "idle" /\ rebuild.outcome # "failed")
        => /\ block_trip_index = RebuiltIndices(trips, stop_times, rebuild.started_at)
           /\ block_trip_entry = RebuiltEntries(trips, stop_times)

LogEntries(w) == {requests[w].log[i] : i \in DOMAIN requests[w].log}

IndexEntries(w) == {e \in LogEntries(w) : e.read \in IndexReads}

\* C9: under any interleaving of Rebuild with the read queries, every read
\* of the block-trip index finds a complete index, the one from before a
\* rebuild or the one after it, never the tables of a rebuild part-way
\* through (entries cleared, indices cleared, or some groups repopulated),
\* and the reads of one query find the same index.
C9_ReadersSeeCompleteIndex ==
    \A w \in Workers :
        /\ \A e \in IndexEntries(w) : e.index \in committed /\ ~e.part_way
        /\ \A e, f \in IndexEntries(w) : e.index = f.index

\* a matcher has read the index twice after an update of the schedule was
\* rebuilt into an index with entries, other than the index at the start
C9_Witness ==
    \E w \in Workers :
        /\ requests[w].handler = "FindActiveTripForRoute"
        /\ Cardinality(IndexEntries(w)) = 2
        /\ rebuild.rebuilds >= 1
        /\ rebuild.updates >= 1
        /\ \A e \in IndexEntries(w) :
               /\ e.index = <<block_trip_index, block_trip_entry>>
               /\ e.index[2] # {}
               /\ e.index # <<RebuiltIndices(ScheduleTrips(StartSchedule),
                                             ScheduleStopTimes(StartSchedule), 0),
                              RebuiltEntries(ScheduleTrips(StartSchedule),
                                             ScheduleStopTimes(StartSchedule))>>

\* every handler but routesForAgencyHandler reads under the read lock
LockingHandlersReadUnderRLock ==
    \A w \in Workers :
        requests[w].handler # "routesForAgencyHandler"
            => \A e \in LogEntries(w) : e.held /\ ~e.writing

\* C10: every handler holds the manager's read lock over all its reads of
\* the manager's state, so no read of a handler overlaps the writer holding
\* the exclusive lock.
C10_EveryReadUnderReadLock ==
    \A w \in Workers : \A e \in LogEntries(w) : e.held /\ ~e.writing

-----------------------------------------------------------------------------
(* Rebuild on its own: over every schedule, at a later time than the      *)
(* index was built, with store failures                                    *)

RebuildBlocks == {"B1", "B2", NoBlock}

\* the times a Rebuild may start at; the index at the start was built at 0
RebuildTimes == {0, 60}

RolledBackNothing(before) == <<block_trip_index, block_trip_entry>>

\* the clear-and-repopulate statements run in one transaction: a rollback
\* puts back the rows the tables held when it began
RolledBack(before) == before

\* a statement of the Rebuild fails: the delete of the entries, the delete
\* of the indices or one of the inserts
StoreFailure ==
    /\ rebuild.pc \in {"locked", "entries_cleared", "populating"}
    /\ block_trip_index' = RolledBack(rebuild.before)[1]
    /\ block_trip_entry' = RolledBack(rebuild.before)[2]
    /\ mu' = [mu EXCEPT !.writer = FALSE]
    /\ rebuild' = [rebuild EXCEPT !.pc = "idle", !.next_group = 0, !.pending = {},
                                  !.outcome = "failed",
                                  !.failed_at = IF block_trip_entry # {}
                                                   /\ rebuild.pc = "populating"
                                                THEN "half-built"
                                                ELSE rebuild.pc]
    /\ UNCHANGED <<requests, committed, trips, stop_times>>

\* every schedule of two trips next to the trip the updates replace
RebuildInit ==
    /\ \E f \in Schedules({"R1"}, Services, RebuildBlocks, StopPatterns) :
           /\ \A id \in UpdatedTrips :
                  f[id] = [route_id |-> "R1", service_id |-> "s1",
                           block_id |-> "B1", pattern |-> EarlyRun]
           /\ ScheduleIs(f)
    /\ tripQuery = NoTripQuery
    /\ windowQuery = NoWindowQuery
    /\ indexQuery = NoIndexQuery
    /\ scheduleQuery = NoScheduleQuery
    /\ NoCalendar
    /\ ManagerAtRest
    /\ RestAPIAtRest

RebuildNext ==
    \/ \E at \in RebuildTimes :
           Lock(at) /\ UNCHANGED <<calVars, queryVars, restVars>>
    \/ \E id \in UpdatedTrips,
          d \in [route_id : {"R1"}, service_id : {"s1"}, block_id : Blocks,
                 pattern : {EarlyRun, LongRun}] :
           ImportTrip(id, d) /\ UNCHANGED <<calVars, queryVars, restVars>>
    \/ ClearBlockTripEntries /\ UNCHANGED <<calVars, queryVars, restVars>>
    \/ ClearBlockTripIndices /\ UNCHANGED <<calVars, queryVars, restVars>>
    \/ CreateBlockTripIndex /\ UNCHANGED <<calVars, queryVars, restVars>>
    \/ \E t \in trips :
           CreateBlockTripEntry(t) /\ UNCHANGED <<calVars, queryVars, restVars>>
    \/ Unlock /\ UNCHANGED <<calVars, queryVars, restVars>>
    \/ StoreFailure /\ UNCHANGED <<calVars, queryVars, restVars>>

SpecRebuild == RebuildInit /\ [][RebuildNext]_vars

Rebuilt == rebuild.pc = "idle" /\ rebuild.outcome = "rebuilt"

WithoutCreatedAt(indices) ==
    {[id |-> r.id, index_key |-> r.index_key,
      stop_sequence_key |-> r.stop_sequence_key, service_ids |-> r.service_ids] :
        r \in indices}

\* a Rebuild has just finished over the Trip/StopTime rows the Rebuild
\* before it saw
RebuiltUnchanged == Rebuilt /\ ~rebuild.changed

FailedRebuild == rebuild.pc = "idle" /\ rebuild.outcome = "failed"

IndexBuilt == rebuild.pc = "idle" /\ rebuild.outcome # "failed"

EntriesOf(block, service) ==
    {e \in block_trip_entry : e.block_id = block /\ e.service_id = service}

EntryPairs == {<<e.block_id, e.service_id>> : e \in block_trip_entry}

OrderedStops(id) ==
    LET rows == TripStopTimes(id)
    IN  [i \in 1 .. Cardinality(rows) |->
            (CHOOSE r \in rows :
                Cardinality({o \in rows : o.stop_sequence < r.stop_sequence}) = i - 1).stop_id]

BlockTripsOf == {t \in trips : t.block_id # NoBlock}

EntriesOfTrip(id) == {e \in block_trip_entry : e.trip_id = id}

MembersOf(index) ==
    {t \in trips : \E e \in EntriesOfTrip(t.id) : e.block_trip_index_id = index.id}

\* C14: after every Rebuild there is exactly one BlockTripIndex row per
\* distinct (block id, stop_sequence_key) among the trips with a block id;
\* every such trip has exactly one entry, pointing to the index of its own
\* block and stop sequence; the trips folded into one index have identical
\* ordered stop-id sequences; the index's service_ids is the union of its
\* member trips' service ids; trips without a block id have no entry.
C14_OneIndexPerBlockAndStopSequence ==
    IndexBuilt =>
        /\ \A t \in BlockTripsOf :
               /\ Cardinality({x \in block_trip_index :
                      x.index_key = <<t.block_id, OrderedStops(t.id)>>}) = 1
               /\ Cardinality(EntriesOfTrip(t.id)) = 1
               /\ \A e \in EntriesOfTrip(t.id) :
                      /\ e.block_id = t.block_id
                      /\ e.service_id = t.service_id
                      /\ \E x \in block_trip_index :
                             /\ x.id = e.block_trip_index_id
                             /\ x.index_key = <<t.block_id, OrderedStops(t.id)>>
                             /\ x.stop_sequence_key = OrderedStops(t.id)
        /\ \A x \in block_trip_index :
               /\ MembersOf(x) # {}
               /\ \A t, u \in MembersOf(x) :
                      t.block_id = u.block_id /\ OrderedStops(t.id) = OrderedStops(u.id)
               /\ x.service_ids = {t.service_id : t \in MembersOf(x)}
               /\ \A y \in block_trip_index : y.id = x.id => y = x
        /\ \A t \in trips \ BlockTripsOf : EntriesOfTrip(t.id) = {}
        /\ \A e \in block_trip_entry : \E t \in BlockTripsOf : t.id = e.trip_id

\* a Rebuild has finished over a block with two stop sequences, one of them
\* run by trips of two services
C14_Witness ==
    /\ Rebuilt
    /\ \E x, y \in block_trip_index :
           /\ x # y
           /\ x.index_key[1] = y.index_key[1]
           /\ Cardinality(x.service_ids) = 2

-----------------------------------------------------------------------------
(* GetStopTimesForStopInWindow over every schedule of two routes *)

WindowInit ==
    /\ \E f \in Schedules(Routes, {"s1"}, {"B1"}, StopPatterns) : ScheduleIs(f)
    /\ tripQuery = NoTripQuery
    /\ windowQuery = NoWindowQuery
    /\ indexQuery = NoIndexQuery
    /\ scheduleQuery = NoScheduleQuery
    /\ NoCalendar
    /\ ManagerAtRest
    /\ RestAPIAtRest

WindowNext ==
    /\ windowQuery = NoWindowQuery
    /\ indexQuery = NoIndexQuery
    /\ scheduleQuery = NoScheduleQuery
    /\ \E s \in StopIDs, w \in Windows : GetStopTimesForStopInWindow(s, w[1], w[2])
    /\ UNCHANGED <<calVars, tripTables, tripQuery, indexQuery, scheduleQuery, lockVars, restVars>>

SpecWindow == WindowInit /\ [][WindowNext]_vars

AskedWindow == windowQuery.stop_id # ""

\* the events at the stop asked about
EventsAtStop == {st \in stop_times : st.stop_id = windowQuery.stop_id}

InWindow(t) == windowQuery.window_start <= t /\ t <= windowQuery.window_end

EventsInWindow ==
    {st \in EventsAtStop : InWindow(st.arrival_time) \/ InWindow(st.departure_time)}

EventOf(row) ==
    [trip_id |-> row.trip_id, stop_sequence |-> row.stop_sequence,
     stop_id |-> row.stop_id, arrival_time |-> row.arrival_time,
     departure_time |-> row.departure_time]

\* C15: GetStopTimesForStopInWindow returns exactly the stop_time events at
\* the stop whose arrival lies in the closed interval [windowStart,
\* windowEnd] or whose departure lies in it, each once and joined with its
\* trip's route, in ascending order of arrival time.
C15_WindowEventsOrderedByArrival ==
    AskedWindow =>
        LET rows == windowQuery.rows
        IN  /\ {EventOf(rows[i]) : i \in DOMAIN rows} = EventsInWindow
            /\ Len(rows) = Cardinality(EventsInWindow)
            /\ \A i \in DOMAIN rows :
                   \E t \in trips :
                       /\ t.id = rows[i].trip_id
                       /\ t.route_id = rows[i].route_id
            /\ \A i, j \in DOMAIN rows :
                   i < j => rows[i].arrival_time <= rows[j].arrival_time
            /\ windowQuery.err = "nil"

\* a window that takes in one event by its departure alone, at the very end
\* of the window, next to events of two routes and events left out
C15_Witness ==
    /\ AskedWindow
    /\ Len(windowQuery.rows) >= 2
    /\ \E i \in DOMAIN windowQuery.rows :
           /\ ~InWindow(windowQuery.rows[i].arrival_time)
           /\ windowQuery.rows[i].departure_time = windowQuery.window_end
    /\ \E i, j \in DOMAIN windowQuery.rows :
           windowQuery.rows[i].route_id # windowQuery.rows[j].route_id
    /\ EventsAtStop \ EventsInWindow # {}


-----------------------------------------------------------------------------
(* The index-id queries over every rebuilt index of three trips *)

QueryBlockSets == SUBSET QueryBlocks

IndicesInit ==
    /\ \E f \in Schedules(Routes, Services, RebuildBlocks, {EarlyRun, LongRun}) :
           /\ \A id \in UpdatedTrips :
                  f[id] = [route_id |-> "R1", service_id |-> "s1", block_id |-> "B1",
                           pattern |-> EarlyRun]
           /\ ScheduleIs(f)
    /\ tripQuery = NoTripQuery
    /\ windowQuery = NoWindowQuery
    /\ indexQuery = NoIndexQuery
    /\ scheduleQuery = NoScheduleQuery
    /\ activeQuery = NoQuery
    /\ NoCalendar
    /\ ManagerAtRest
    /\ RestAPIAtRest

IndicesNext ==
    \/ \E r \in Routes, a \in ActiveSets :
           /\ ~indexQuery.route.asked
           /\ GetBlockTripIndexIDsForRoute(r, a)
           /\ UNCHANGED <<calVars, tripTables, tripQuery, windowQuery, scheduleQuery, lockVars, restVars>>
    \/ \E b \in QueryBlockSets, a \in ActiveSets :
           /\ ~indexQuery.blocks.asked
           /\ GetBlockTripIndexIDsForBlocks(b, a)
           /\ UNCHANGED <<calVars, tripTables, tripQuery, windowQuery, scheduleQuery, lockVars, restVars>>

SpecIndices == IndicesInit /\ [][IndicesNext]_vars

Ascending(sq) == \A i, j \in DOMAIN sq : i < j => sq[i] < sq[j]

ListedIDs(sq) == {sq[i] : i \in DOMAIN sq}

IndicesOnRoute(route_id, active) ==
    {ix.id : ix \in {x \in block_trip_index :
        \E e \in block_trip_entry :
            /\ e.block_trip_index_id = x.id
            /\ e.service_id \in active
            /\ \E t \in trips : t.id = e.trip_id /\ t.route_id = route_id}}

IndicesOfBlocks(block_ids, active) ==
    {ix.id : ix \in {x \in block_trip_index :
        \E e \in block_trip_entry :
            /\ e.block_trip_index_id = x.id
            /\ e.block_id \in block_ids
            /\ e.service_id \in active}}

\* C16: the list for a route holds exactly the ids of the block_trip_index
\* rows with an entry of an active service whose trip is on the route, the
\* list for a set of blocks exactly the ids of the rows with an entry of one
\* of the blocks and an active service; each id is listed once and the ids
\* ascend.
C16_ActiveIndicesExactAndAscending ==
    /\ indexQuery.route.asked =>
           /\ ListedIDs(indexQuery.route.ids) =
                  IndicesOnRoute(indexQuery.route.route_id, indexQuery.route.service_ids)
           /\ Ascending(indexQuery.route.ids)
    /\ indexQuery.blocks.asked =>
           /\ ListedIDs(indexQuery.blocks.ids) =
                  IndicesOfBlocks(indexQuery.blocks.block_ids, indexQuery.blocks.service_ids)
           /\ Ascending(indexQuery.blocks.ids)

\* both lists hold two ids, and each leaves out an index that only an
\* inactive service or another block keeps from the list
C16_Witness ==
    /\ indexQuery.route.asked /\ indexQuery.blocks.asked
    /\ Len(indexQuery.route.ids) = 2
    /\ Len(indexQuery.blocks.ids) = 2
    /\ IndicesOnRoute(indexQuery.route.route_id, Services) \ ListedIDs(indexQuery.route.ids) # {}
    /\ IndicesOfBlocks(QueryBlocks, Services) \ ListedIDs(indexQuery.blocks.ids) # {}

-----------------------------------------------------------------------------
(* The rate limiter under every configuration, with concurrent requests *)

RateInit ==
    /\ \E n \in RatesPerSecond, d \in Intervals, e \in ExemptLists :
           rl = NewRateLimitMiddleware(n, d, e)
    /\ NoRequestYet
    /\ NoPageYet
    /\ trips = {} /\ stop_times = {}
    /\ block_trip_index = {} /\ block_trip_entry = {}
    /\ tripQuery = NoTripQuery
    /\ windowQuery = NoWindowQuery
    /\ indexQuery = NoIndexQuery
    /\ scheduleQuery = NoScheduleQuery
    /\ NoCalendar
    /\ mu = Unlocked
    /\ requests = [w \in Workers |-> Idle]
    /\ rebuild = NoRebuild
    /\ committed = {<<block_trip_index, block_trip_entry>>}

RateNext ==
    \/ \E g \in Goroutines, r \in HTTPRequests :
           rateLimitHandler(g, r) /\ UNCHANGED <<otherVars, stopVars>>
    \/ \E g \in Goroutines : getLimiterLookup(g) /\ UNCHANGED <<otherVars, stopVars>>
    \/ \E g \in Goroutines : getLimiterCreate(g) /\ UNCHANGED <<otherVars, stopVars>>
    \/ \E g \in Goroutines : Allow(g) /\ UNCHANGED <<otherVars, stopVars>>
    \/ Advance /\ UNCHANGED <<otherVars, stopVars>>

SpecRate == RateInit /\ [][RateNext]_vars

Keys == {"__no_key__"} \cup APIKeys

\* what the key's requests were answered, in the order of the decisions
ResponsesOf(key) ==
    LET OfKey(r) == r.api_key = key
    IN  SelectSeq(responses, OfKey)

Forwarded(sq) == {i \in DOMAIN sq : sq[i].status = StatusOK /\ sq[i].next_called}

Rejected(sq) ==
    {i \in DOMAIN sq : sq[i].status = StatusTooManyRequests /\ ~sq[i].next_called}

NoTimeElapsing(sq) == \A i, j \in DOMAIN sq : sq[i].at = sq[j].at

\* C17: with a limit N >= 0 and no time elapsing between the requests of a
\* key that is not exempt, the first N of them are answered 200 by the next
\* handler and every later one 429 without the next handler; with N = 0
\* every one is answered 429.
C17_FirstNForwardedRestRejected ==
    \A k \in Keys \ rl.exemptKeys :
        LET sq == ResponsesOf(k)
        IN  (rl.args.ratePerSecond = 0 \/ NoTimeElapsing(sq)) =>
                \A i \in DOMAIN sq :
                    IF i <= rl.args.ratePerSecond
                        THEN sq[i].status = StatusOK /\ sq[i].next_called
                        ELSE sq[i].status = StatusTooManyRequests /\ ~sq[i].next_called

\* the decisions on the key fall in a span shorter than the time one token
\* takes to come back: rate.Limit(0) never gives one back, and under
\* rate.Inf one is there at once, so that no span is short enough
TooShortForRefill(sq) ==
    CASE rl.rateLimit.kind = "0" -> TRUE
      [] rl.rateLimit.kind = "Inf" -> FALSE
      [] OTHER -> \A i, j \in DOMAIN sq : sq[j].at - sq[i].at < rl.rateLimit.every

\* C18: of M > N requests of one key that is not exempt, decided under any
\* interleaving in a span too short for a refill, exactly N are forwarded
\* and M - N answered 429; no key ever gets two limiters.
C18_ExactlyNForwardedOneLimiterPerKey ==
    /\ \A k \in Keys \ rl.exemptKeys :
           LET sq == ResponsesOf(k)
           IN  (TooShortForRefill(sq) /\ Len(sq) > rl.args.ratePerSecond) =>
                   /\ Cardinality(Forwarded(sq)) = rl.args.ratePerSecond
                   /\ Cardinality(Rejected(sq)) = Len(sq) - rl.args.ratePerSecond
    /\ \A i, j \in DOMAIN allocated :
           allocated[i].api_key = allocated[j].api_key => i = j

\* three requests of one key met a limit of 2, two of them waiting for the
\* lock while the third made the key's limiter
C18_Witness ==
    \E k \in Keys \ rl.exemptKeys :
        LET sq == ResponsesOf(k)
        IN  /\ rl.args.ratePerSecond = 2
            /\ TooShortForRefill(sq)
            /\ Len(sq) = 3
            /\ Cardinality(Rejected(sq)) = 1
            /\ allocated[sq[1].limiter].waiting = 2

\* C19: a request whose key is in the exempt set is answered by the next
\* handler, whatever the limit and however many came before; with a nil or
\* empty exempt list no key is exempt, org.onebusaway.iphone included, and
\* every request goes through its key's limiter.
C19_ExemptKeysAlwaysForwarded ==
    /\ \A i \in DOMAIN responses :
           responses[i].api_key \in rl.exemptKeys =>
               responses[i].status = StatusOK /\ responses[i].next_called
    /\ Len(rl.args.exemptKeys) = 0 =>
           /\ rl.exemptKeys = {}
           /\ \A i \in DOMAIN responses : responses[i].limiter # 0

\* with limit 0 the exempt key A is forwarded twice while a request of
\* org.onebusaway.iphone, which the list does not name, is answered 429
C19_Witness ==
    /\ rl.args.ratePerSecond = 0
    /\ "A" \in rl.exemptKeys
    /\ Cardinality(Forwarded(ResponsesOf("A"))) = 2
    /\ Cardinality(Rejected(ResponsesOf("org.onebusaway.iphone"))) = 1

\* the limiter of a key, if it has one
LimiterOf(key) ==
    IF key \in DOMAIN limiters THEN <<allocated[limiters[key].limiter]>> ELSE <<>>

\* the keys whose request takes a step
StepKeys ==
    {serving[g].apiKey : g \in {h \in Goroutines : serving'[h] # serving[h]}}
        \cup {serving'[g].apiKey : g \in {h \in Goroutines : serving'[h] # serving[h]}}
        \cup {responses'[i].api_key : i \in (DOMAIN responses') \ (DOMAIN responses)}

OtherKeysKeepAllowance ==
    \A k \in Keys : k \notin StepKeys => LimiterOf(k)' = LimiterOf(k)

PseudoKeyShared ==
    \A i, j \in DOMAIN responses :
        (QueryGet(responses[i].request) = "" /\ QueryGet(responses[j].request) = "") =>
            /\ responses[i].api_key = "__no_key__"
            /\ responses[i].limiter = responses[j].limiter

FirstRequestForwarded ==
    \A k \in Keys \ rl.exemptKeys :
        (rl.args.ratePerSecond >= 1 /\ ResponsesOf(k) # <<>>) =>
            ResponsesOf(k)[1].status = StatusOK

\* C20: a step of a request of one key leaves the limiter, and with it the
\* allowance, of every other key as it was, so the first request of a key
\* is forwarded however many requests of other keys were rejected; requests
\* without a key and with an empty key are limited together as __no_key__.
C20_PerKeyAllowance ==
    /\ [][OtherKeysKeepAllowance]_vars
    /\ [](PseudoKeyShared /\ FirstRequestForwarded)

\* a request without key is forwarded and one with an empty key then
\* rejected by the same limiter, after which key A is still forwarded
C20_Witness ==
    /\ Len(responses) = 3
    /\ ~responses[1].request.has_key /\ responses[1].status = StatusOK
    /\ responses[2].request = [has_key |-> TRUE, key |-> ""]
    /\ responses[2].status = StatusTooManyRequests
    /\ responses[2].limiter = responses[1].limiter
    /\ responses[3].api_key = "A" /\ responses[3].status = StatusOK

-----------------------------------------------------------------------------
(* The rate limiter with its cleanup goroutine, its clock and its Stop *)

\* the requests that reach the middleware while it is cleaned and stopped:
\* one without a key, one with a key
CleanupRequests ==
    {[has_key |-> FALSE, key |-> ""], [has_key |-> TRUE, key |-> "org.onebusaway.iphone"]}

\* the goroutines that serve them
CleanupGoroutines == Goroutines

\* NewRateLimitMiddleware with a mock clock and an exempt key; the test of
\* the exempt keys puts an entry of the exempt key, with no limiter, into
\* rl.limiters itself
CleanupInit ==
    /\ rl = NewRateLimitMiddleware(1, 1, <<" A ", "">>)
    /\ limiters \in {NoLimiters} \cup
           {[key \in {k} |-> [limiter |-> 0, lastSeen |-> 0]] : k \in rl.exemptKeys}
    /\ allocated = <<>>
    /\ rl_mu = Unlocked
    /\ serving = [g \in Goroutines |-> NotServing]
    /\ now = 0
    /\ responses = <<>>
    /\ clock = 0
    /\ stopChan = [closed |-> FALSE, closes |-> 0]
    /\ stopOnce = [done |-> FALSE, m |-> ""]
    /\ cleanupTick = [stopped |-> FALSE, C |-> 0, sent |-> 0]
    /\ cleanupGoroutine = [pc |-> "select"]
    /\ evictions = <<>>
    /\ stoppers = [s \in Stoppers |-> NotStopping]
    /\ NoPageYet
    /\ trips = {} /\ stop_times = {}
    /\ block_trip_index = {} /\ block_trip_entry = {}
    /\ tripQuery = NoTripQuery
    /\ windowQuery = NoWindowQuery
    /\ indexQuery = NoIndexQuery
    /\ scheduleQuery = NoScheduleQuery
    /\ NoCalendar
    /\ mu = Unlocked
    /\ requests = [w \in Workers |-> Idle]
    /\ rebuild = NoRebuild
    /\ committed = {<<block_trip_index, block_trip_entry>>}


StopperStep(s) ==
    (OnceDo(s) \/ closeStopChan(s) \/ tickerStop(s)) /\ UNCHANGED otherVars

CleanupNext ==
    \/ \E g \in CleanupGoroutines, r \in CleanupRequests :
           rateLimitHandler(g, r) /\ UNCHANGED <<otherVars, stopVars>>
    \/ \E g \in Goroutines : getLimiterLookup(g) /\ UNCHANGED <<otherVars, stopVars>>
    \/ \E g \in Goroutines : getLimiterCreate(g) /\ UNCHANGED <<otherVars, stopVars>>
    \/ \E g \in Goroutines : Allow(g) /\ UNCHANGED <<otherVars, stopVars>>
    \/ \E d \in ClockSteps : AdvanceClock(d) /\ UNCHANGED otherVars
    \/ Tick /\ UNCHANGED otherVars
    \/ cleanupTickCase /\ UNCHANGED otherVars

SpecCleanup == CleanupInit /\ [][CleanupNext]_vars

\* the middleware is stopped while one goroutine serves a request without
\* a key, and the clock goes past the threshold of cleanup()
StopNext ==
    \/ rateLimitHandler(Arrivals[1], [has_key |-> FALSE, key |-> ""])
           /\ UNCHANGED <<otherVars, stopVars>>
    \/ \E g \in Goroutines : getLimiterLookup(g) /\ UNCHANGED <<otherVars, stopVars>>
    \/ \E g \in Goroutines : getLimiterCreate(g) /\ UNCHANGED <<otherVars, stopVars>>
    \/ \E g \in Goroutines : Allow(g) /\ UNCHANGED <<otherVars, stopVars>>
    \/ AdvanceClock(CleanupThreshold + 1) /\ UNCHANGED otherVars
    \/ Tick /\ UNCHANGED otherVars
    \/ cleanupTickCase /\ UNCHANGED otherVars
    \/ cleanupStopCase /\ UNCHANGED otherVars
    \/ \E s \in Stoppers : Stop(s) /\ UNCHANGED otherVars
    \/ \E s \in Stoppers : Shutdown(s) /\ UNCHANGED otherVars
    \/ \E s \in Stoppers : OnceDo(s) /\ UNCHANGED otherVars
    \/ \E s \in Stoppers : closeStopChan(s) /\ UNCHANGED otherVars
    \/ \E s \in Stoppers : tickerStop(s) /\ UNCHANGED otherVars

\* the Go scheduler runs every goroutine that can run: the cleanup
\* goroutine takes a case of its select that stays ready, and a caller of
\* Stop goes on when it can
SpecStop ==
    /\ CleanupInit /\ [][StopNext]_vars
    /\ WF_vars(cleanupStopCase /\ UNCHANGED otherVars)
    /\ \A s \in Stoppers : WF_vars(StopperStep(s))

Stopping == {s \in Stoppers : stoppers[s].pc # "idle"}

\* no call has panicked, the channel was closed once at most, and once
\* when a call has returned
ClosedOnce ==
    /\ \A s \in Stoppers : stoppers[s].pc # "panic"
    /\ stopChan.closes <= 1
    /\ (\E s \in Stoppers : stoppers[s].calls > 0) =>
           stopChan.closed /\ stopChan.closes = 1

\* the goroutine that has left cleanup() stays out and deletes nothing
ExitedForGood ==
    cleanupGoroutine.pc = "exited" =>
        /\ cleanupGoroutine' = cleanupGoroutine
        /\ evictions' = evictions
        /\ DOMAIN limiters \subseteq DOMAIN limiters'

LastSeenIsNow ==
    \A g \in Goroutines :
        (serving[g].pc \in {"getLimiter", "NewLimiter"} /\ serving'[g].pc = "Allow") =>
            /\ serving[g].apiKey \in DOMAIN limiters'
            /\ limiters'[serving[g].apiKey].lastSeen = clock

\* a key leaves rl.limiters in a pass of cleanup() only
OnlyPassesEvict ==
    DOMAIN limiters \subseteq DOMAIN limiters' \/ Len(evictions') > Len(evictions)

\* the keys that a pass has to delete: not exempt, and last seen more than
\* ten minutes before the pass
IdleAt(pass) ==
    {key \in DOMAIN pass.before :
        /\ key \notin rl.exemptKeys
        /\ pass.at - pass.before[key].lastSeen > CleanupThreshold}

PassesEvictTheIdle ==
    \A i \in DOMAIN evictions :
        /\ DOMAIN evictions[i].before \ DOMAIN evictions[i].after = IdleAt(evictions[i])
        /\ \A key \in DOMAIN evictions[i].after :
               evictions[i].after[key] = evictions[i].before[key]

\* C25: every request of a key that is not exempt sets the lastSeen of the
\* key to the time of the clock, and a pass of cleanup() removes exactly the
\* limiters whose key is not exempt and was last seen more than 10 minutes
\* before the pass, whatever tokens they hold
C25_CleanupEvictsExactlyTheIdleKeys ==
    /\ []PassesEvictTheIdle
    /\ [][LastSeenIsNow /\ OnlyPassesEvict]_vars

\* one pass deleted a key whose limiter had no token left, kept a key made
\* at the start and used again within the ten minutes, and kept the entry
\* of the exempt key, idle for longer
C25_Witness ==
    \E i \in DOMAIN evictions :
        LET pass == evictions[i]
        IN  /\ \E key \in DOMAIN pass.before \ DOMAIN pass.after :
                   allocated[pass.before[key].limiter].tokens = 0
            /\ \E key \in DOMAIN pass.after \ rl.exemptKeys :
                   /\ pass.after[key].lastSeen > 0
                   /\ allocated[pass.after[key].limiter].last = 0
            /\ \E key \in DOMAIN pass.after \cap rl.exemptKeys :
                   pass.at - pass.after[key].lastSeen > CleanupThreshold

-----------------------------------------------------------------------------
(* The refill of a key's allowance, under SpecRate *)

\* the key was answered 429 at the i-th of its decisions, and its next
\* decision came a full interval later, with no request of the key between
IdleForAnInterval(sq, i) ==
    /\ i \in Rejected(sq)
    /\ i + 1 \in DOMAIN sq
    /\ sq[i + 1].at - sq[i].at >= rl.args.interval

\* the requests a limiter would let through at this moment
Allowance(lim) == TokensAt(lim, now) \div TokenCost(lim.limit)

\* C26: a key of a limiter of N >= 1 per interval that was answered 429 and
\* then made no request for a full interval has its next request forwarded,
\* and no limiter ever holds more than N requests' worth of tokens
C26_RefillsAfterAnIntervalUpToN ==
    /\ \A k \in Keys \ rl.exemptKeys :
           LET sq == ResponsesOf(k)
           IN  \A i \in DOMAIN sq :
                   (rl.args.ratePerSecond >= 1 /\ IdleForAnInterval(sq, i)) =>
                       i + 1 \in Forwarded(sq)
    /\ \A l \in DOMAIN allocated : Allowance(allocated[l]) <= rl.args.ratePerSecond

\* a key with a limit of 1 per interval was forwarded, answered 429, and
\* forwarded again an interval later
C26_Witness ==
    \E k \in Keys \ rl.exemptKeys :
        LET sq == ResponsesOf(k)
        IN  /\ rl.args.ratePerSecond = 1
            /\ Len(sq) = 3
            /\ 1 \in Forwarded(sq)
            /\ IdleForAnInterval(sq, 2)
            /\ 3 \in Forwarded(sq)

-----------------------------------------------------------------------------
(* The pagination functions over every list, offset, limit and query *)

\* nothing but the list of a handler is there
OnlyAList ==
    /\ items \in Slices
    /\ parsed = NotParsed
    /\ pages = <<>>
    /\ MiddlewareAtRest
    /\ trips = {} /\ stop_times = {}
    /\ block_trip_index = {} /\ block_trip_entry = {}
    /\ tripQuery = NoTripQuery
    /\ windowQuery = NoWindowQuery
    /\ indexQuery = NoIndexQuery
    /\ scheduleQuery = NoScheduleQuery
    /\ NoCalendar
    /\ ManagerAtRest

notPageVars == <<calVars, tripVars, lockVars, rateVars>>

Offsets == (-1 .. MaxItems + 1) \cup {MaxInt}

Limits == (-2 .. MaxItems + 1) \cup {MaxInt}

PaginateInit == OnlyAList /\ pageQuery = NoPageQuery

PaginateNext ==
    \E offset \in Offsets, limit \in Limits :
        PaginateSliceWith(offset, limit) /\ UNCHANGED notPageVars

SpecPaginate == PaginateInit /\ [][PaginateNext]_vars

Min(a, b) == IF a <= b THEN a ELSE b

\* items[lo:hi] of the list, as a sequence
ItemsBetween(lo, hi) == SubSeq(items.elems, lo + 1, hi)

\* what the claim says of a call
AsDocumented(call) ==
    /\ ~call.result.panic
    /\ IF call.offset >= len(items)
           THEN call.result.items.elems = <<>> /\ ~call.result.limitExceeded
           ELSE IF call.limit = -1
                    THEN /\ call.result.items.elems = ItemsBetween(call.offset, len(items))
                         /\ ~call.result.limitExceeded
                    ELSE /\ call.result.items.elems =
                                ItemsBetween(call.offset, Min(call.offset + call.limit, len(items)))
                         /\ call.result.limitExceeded <=>
                                (call.offset + call.limit < len(items))

\* C22, as it is written: for every offset >= 0 and every limit,
\* PaginateSlice returns the empty list and false when offset >= len(items),
\* items[offset:] and false when limit = -1, and otherwise
\* items[offset : min(offset+limit, len(items))] with limitExceeded true
\* exactly when offset+limit < len(items)
C22_PaginateSliceForEveryLimit ==
    \A i \in DOMAIN pages : pages[i].offset >= 0 => AsDocumented(pages[i])

\* the limit means no limit, or is a count whose sum with the offset is an int
LimitInRange(call) ==
    call.limit = -1 \/ (call.limit >= 0 /\ call.offset + call.limit <= MaxInt)

\* C22, amended: the same for every offset >= 0 and every limit that is -1,
\* or is >= 0 with offset+limit no more than the largest int
C22_PaginateSliceForLimitsInRange ==
    \A i \in DOMAIN pages :
        (pages[i].offset >= 0 /\ LimitInRange(pages[i])) => AsDocumented(pages[i])

\* a page from the middle of the list, with items left after it
C22_Witness ==
    \E i \in DOMAIN pages :
        /\ pages[i].offset > 0 /\ pages[i].limit > 0
        /\ pages[i].offset + pages[i].limit < len(items)
        /\ ~pages[i].result.panic
        /\ pages[i].result.limitExceeded
        /\ Len(pages[i].result.items.elems) = pages[i].limit

-----------------------------------------------------------------------------
(* A list handler: it parses the parameters and paginates its list *)

ParamsInit == OnlyAList /\ pageQuery \in PageQueries

ParamsNext ==
    \/ ParsePaginationParams /\ UNCHANGED notPageVars
    \/ PaginateParsed /\ UNCHANGED notPageVars

SpecParams == ParamsInit /\ [][ParamsNext]_vars

\* the parameter values that are integers, and the integers they are
IntegerOf ==
    [val \in {"-5", "0", "1", "+2", "1000", "1001"} |->
        CASE val = "-5" -> -5
          [] val = "0" -> 0
          [] val = "1" -> 1
          [] val = "+2" -> 2
          [] val = "1000" -> 1000
          [] val = "1001" -> 1001]

\* the parameter that decides the limit: maxCount when it is there, else limit
LimitParameter == IF pageQuery.maxCount # "" THEN pageQuery.maxCount ELSE pageQuery.limit

\* C23: ParsePaginationParams returns the offset parameter when it is an
\* integer >= 0 and 0 otherwise; as limit the maxCount parameter when it is
\* present and else the limit parameter, taken only when a positive integer
\* and capped to 1000, and -1 when missing, not a number, zero or negative
C23_ParsePaginationParams ==
    parsed.called =>
        /\ parsed.offset =
               IF pageQuery.offset \in DOMAIN IntegerOf /\ IntegerOf[pageQuery.offset] >= 0
                   THEN IntegerOf[pageQuery.offset]
                   ELSE 0
        /\ parsed.limit =
               IF LimitParameter \in DOMAIN IntegerOf /\ IntegerOf[LimitParameter] > 0
                   THEN Min(IntegerOf[LimitParameter], 1000)
                   ELSE -1

\* a maxCount above the cap won over a limit below it, and the offset was
\* taken
C23_Witness ==
    /\ parsed.called
    /\ pageQuery = [offset |-> "+2", limit |-> "1", maxCount |-> "1001"]
    /\ parsed.offset = 2
    /\ parsed.limit = 1000

\* the call returned items[lo:hi] for some lo <= hi inside the list
ContiguousSubList(call) ==
    /\ ~call.result.panic
    /\ \E lo, hi \in 0..len(items) :
           lo <= hi /\ call.result.items.elems = ItemsBetween(lo, hi)

\* C30: for every combination of the offset, limit and maxCount parameters
\* ParsePaginationParams returns an offset >= 0 and a limit that is -1 or
\* between 1 and 1000, and PaginateSlice with them, on a list of any length,
\* empty or nil, stays inside the list and returns a contiguous sub-list
C30_ParsedValuesNeverSliceOutOfBounds ==
    /\ parsed.called =>
           /\ parsed.offset >= 0
           /\ parsed.limit = -1 \/ (1 <= parsed.limit /\ parsed.limit <= 1000)
    /\ \A i \in DOMAIN pages : ContiguousSubList(pages[i])

\* the handler returned one item from the middle of a list of three
C30_Witness ==
    /\ parsed.called /\ parsed.offset = 1 /\ parsed.limit = 1
    /\ len(items) = 3
    /\ pages # <<>>
    /\ pages[1].result.items.elems = <<items.elems[2]>>
    /\ pages[1].result.limitExceeded

-----------------------------------------------------------------------------
(* A client that pages through a list *)

PageLimits == 1 .. MaxItems + 1

PagingInit == OnlyAList /\ pageQuery = NoPageQuery

PagingNext ==
    \/ \E L \in PageLimits : FirstPage(L) /\ UNCHANGED notPageVars
    \/ NextPage /\ UNCHANGED notPageVars

SpecPaging == PagingInit /\ [][PagingNext]_vars

RECURSIVE Concatenation(_)

\* the items of the pages, one page after the other
Concatenation(sq) ==
    IF sq = <<>>
        THEN <<>>
        ELSE Concatenation(SubSeq(sq, 1, Len(sq) - 1)) \o sq[Len(sq)].result.items.elems

\* the client has seen the last page
PagedThrough == pages # <<>> /\ ~pages[Len(pages)].result.limitExceeded

\* C29: paging with a fixed limit L >= 1 from offset 0 in steps of L until
\* limitExceeded is false visits every item once and in order: the pages
\* together are the list, limitExceeded is true on every page but the last,
\* and no page has more than L items
C29_PagesCoverTheListOnce ==
    /\ \A i \in DOMAIN pages :
           /\ ~pages[i].result.panic
           /\ pages[i].offset = (i - 1) * pages[1].limit
           /\ Len(pages[i].result.items.elems) <= pages[1].limit
           /\ i < Len(pages) => pages[i].result.limitExceeded
    /\ Concatenation(pages) = ItemsBetween(0, Len(Concatenation(pages)))
    /\ PagedThrough => Concatenation(pages) = items.elems

\* a list of three items was paged through in two pages of two and one
C29_Witness ==
    /\ PagedThrough
    /\ len(items) = 3
    /\ Len(pages) = 2
    /\ pages[1].limit = 2
    /\ Len(pages[2].result.items.elems) = 1

-----------------------------------------------------------------------------
(* The interval of a trip: by stop_sequence in the queries, by time in    *)
(* the design                                                              *)

IntervalPatterns == {EarlyRun, LateRun, DwellRun, OutOfOrderRun, EarlyEndRun}

IntervalInit ==
    /\ \E f \in Schedules({"R1"}, {"s1"}, Blocks, IntervalPatterns) : ScheduleIs(f)
    /\ NothingAsked
    /\ calendar = {} /\ calendar_dates = {}
    /\ ManagerAtRest
    /\ RestAPIAtRest

IntervalNext ==
    \/ \E b \in QueryBlocks, a \in ActiveSets, t \in QueryTimes :
           /\ NothingAsked
           /\ GetActiveTripInBlockAtTime(b, a, t)
           /\ UNCHANGED <<calVars, tripTables, windowQuery, indexQuery, scheduleQuery, lockVars, restVars>>
    \/ \E ids \in IndexIDSets, r \in Routes, a \in ActiveSets,
          t \in {29450, 29600}, from \in FromTimes :
           /\ NothingAsked
           /\ GetActiveTripForRouteAtTime(ids, r, a, t, from)
           /\ UNCHANGED <<calVars, tripTables, windowQuery, indexQuery, scheduleQuery, lockVars, restVars>>

SpecInterval == IntervalInit /\ [][IntervalNext]_vars

\* the interval the queries test: every pair the two joins give the trip
QueryIntervals(trip_id) ==
    {<<f.departure_time, l.arrival_time>> :
        <<f, l>> \in FirstStopTimes(trip_id) \X LastStopTimes(trip_id)}

\* the interval of the design: the minimum departure and the maximum
\* arrival over the stop times of the trip
DesignIntervals(trip_id) ==
    {<<f.departure_time, l.arrival_time>> :
        <<f, l>> \in {x \in TripStopTimes(trip_id) \X TripStopTimes(trip_id) :
                        \A o \in TripStopTimes(trip_id) :
                            /\ x[1].departure_time <= o.departure_time
                            /\ x[2].arrival_time >= o.arrival_time}}

\* the trips the last query's test selects, before ORDER BY and LIMIT ...
QuerySelects ==
    IF tripQuery.kind = "block"
        THEN {r.id : r \in ActiveTripInBlockRows(tripQuery.target, tripQuery.service_ids,
                                                 tripQuery.current_time)}
        ELSE {r.id : r \in ActiveTripForRouteRows(tripQuery.index_ids, tripQuery.target,
                                                  tripQuery.service_ids,
                                                  tripQuery.current_time,
                                                  tripQuery.from_time)}

\* ... and the trips the same query selects with the interval of the design
DesignSelects ==
    IF tripQuery.kind = "block"
        THEN {t.id : t \in {u \in trips :
                 /\ u.block_id = tripQuery.target
                 /\ u.service_id \in tripQuery.service_ids
                 /\ \E iv \in DesignIntervals(u.id) :
                        iv[1] <= tripQuery.current_time /\ iv[2] >= tripQuery.current_time}}
        ELSE {x[1].id : x \in {z \in trips \X block_trip_entry :
                 /\ z[1].id = z[2].trip_id
                 /\ z[2].block_trip_index_id \in tripQuery.index_ids
                 /\ z[1].route_id = tripQuery.target
                 /\ z[2].service_id \in tripQuery.service_ids
                 /\ \E iv \in DesignIntervals(z[1].id) :
                        iv[1] <= tripQuery.current_time /\ iv[2] >= tripQuery.from_time}}

TimesFollowSequence(trip_id) ==
    \A a, b \in TripStopTimes(trip_id) :
        a.stop_sequence < b.stop_sequence =>
            /\ a.arrival_time <= b.arrival_time
            /\ a.departure_time <= b.departure_time

-----------------------------------------------------------------------------
(* The schedule of a stop on a date, next to the active services of the   *)
(* date                                                                    *)

\* a Mondays-only and a Wednesdays-and-Sundays calendar row of the service
\* for the year, and a Mondays-only row that ends on Sunday 5 January
CalendarRowsOf(s) ==
    {[id |-> s, monday |-> x[1].monday, tuesday |-> x[1].tuesday,
      wednesday |-> x[1].wednesday, thursday |-> x[1].thursday,
      friday |-> x[1].friday, saturday |-> x[1].saturday, sunday |-> x[1].sunday,
      start_date |-> 20250101, end_date |-> x[2]] :
        x \in {y \in FlagPatterns \X {20250105, 20251231} :
                  y[2] = 20250105 => y[1].monday = 1}}

Calendars ==
    {c \in SUBSET UNION {CalendarRowsOf(s) : s \in Services} :
        \A a, b \in c : a.id = b.id => a = b}

ScheduleDates == {20250105, 20250106}

ExceptionRows == [service_id : Services, date : ScheduleDates, exception_type : {1, 2}]

CalendarDates ==
    {cd \in SUBSET ExceptionRows :
        /\ Cardinality(cd) <= MaxExceptionRows
        /\ \A a, b \in cd : CalendarDatesKey(a) = CalendarDatesKey(b) => a = b}

WeekdayArguments == {"sunday", "monday"}

RouteIDSets == {{}, {"R1"}, {"R1", "R2"}}

ScheduleInit ==
    /\ \E f \in Schedules(Routes, Services, {"B1"}, {EarlyRun}) : ScheduleIs(f)
    /\ calendar \in Calendars
    /\ calendar_dates \in CalendarDates
    /\ NothingAsked
    /\ ManagerAtRest
    /\ RestAPIAtRest

ScheduleNext ==
    /\ NothingAsked
    /\ \E s \in {"A", "C"}, d \in ScheduleDates, w \in WeekdayArguments, r \in RouteIDSets :
           GetScheduleForStopOnDate(s, d, w, r)
    /\ UNCHANGED <<calVars, tripTables, tripQuery, windowQuery, indexQuery, lockVars, restVars>>

SpecSchedule == ScheduleInit /\ [][ScheduleNext]_vars

\* the name of the weekday that STRFTIME('%w') numbers
WeekdayName(n) ==
    <<"sunday", "monday", "tuesday", "wednesday", "thursday", "friday", "saturday">>[n + 1]

\* ActiveServiceIDs(target_date): the rows of GetActiveServiceIDsForDate
ActiveServiceIDs(d) == RowSet(GetActiveServiceIDsForDateRows(d))

\* the stop times of the stop that the claim puts into the schedule
ExpectedSchedule ==
    {st \in stop_times :
        /\ st.stop_id = scheduleQuery.stop_id
        /\ \E t \in trips :
               /\ t.id = st.trip_id
               /\ t.service_id \in ActiveServiceIDs(scheduleQuery.target_date)
               /\ t.route_id \in scheduleQuery.route_ids}

ReturnedStopTimes ==
    {st \in stop_times :
        /\ st.stop_id = scheduleQuery.stop_id
        /\ \E row \in scheduleQuery.rows :
               /\ row.trip_id = st.trip_id
               /\ row.arrival_time = st.arrival_time
               /\ row.departure_time = st.departure_time}

WeekdayOfTheDate ==
    scheduleQuery.weekday = WeekdayName(FormattedDateWeekday(scheduleQuery.target_date))

\* C27: with the weekday of target_date as its weekday argument,
\* GetScheduleForStopOnDate returns a stop time of the stop exactly when the
\* trip of the stop time has a service id that GetActiveServiceIDsForDate
\* gives for target_date and a route in route_ids
C27_ScheduleFollowsActiveServices ==
    (scheduleQuery.asked /\ WeekdayOfTheDate) =>
        /\ ReturnedStopTimes = ExpectedSchedule
        /\ \A row \in scheduleQuery.rows :
               \E st \in ReturnedStopTimes, t \in trips :
                   /\ t.id = st.trip_id /\ row.trip_id = t.id
                   /\ row.service_id = t.service_id /\ row.route_id = t.route_id

\* on one date a trip is in the schedule through an added service that the
\* calendar does not run, a trip is left out through a removed service that
\* the calendar runs, and a trip of a running service through its route
C27_Witness ==
    /\ scheduleQuery.asked /\ WeekdayOfTheDate
    /\ \E row \in scheduleQuery.rows :
           row.service_id \notin ScheduleBase(scheduleQuery.target_date, scheduleQuery.weekday)
    /\ \E t \in trips :
           /\ t.service_id \in ScheduleBase(scheduleQuery.target_date, scheduleQuery.weekday)
           /\ t.service_id \in ScheduleExceptions(scheduleQuery.target_date, 2)
           /\ t.route_id \in scheduleQuery.route_ids
    /\ \E t \in trips :
           /\ t.service_id \in ActiveServiceIDs(scheduleQuery.target_date)
           /\ t.route_id \notin scheduleQuery.route_ids

-----------------------------------------------------------------------------
(* The route query and the trips the index leaves out *)

\* the entries of a trip that the query's WHERE clause accepts
MatchingEntries(trip_id) ==
    {e \in block_trip_entry :
        /\ e.trip_id = trip_id
        /\ e.block_trip_index_id \in tripQuery.index_ids
        /\ e.service_id \in tripQuery.service_ids}

\* the trips of the asked route that are in progress over the asked times
InProgressOnRoute ==
    {t \in trips :
        /\ t.route_id = tripQuery.target
        /\ t.service_id \in tripQuery.service_ids
        /\ \E f \in FirstStopTimes(t.id), l \in LastStopTimes(t.id) :
               RouteIntervalTest(f, l, tripQuery.current_time, tripQuery.from_time)}

RouteAsked == tripQuery.kind = "route"

\* C28: GetActiveTripForRouteAtTime returns only a trip of the asked route
\* that has a block_trip_entry row of one of the given index ids with a
\* service id of the given set; a trip without a block id has no entry and
\* is not returned, and with no entry at all the query returns no trip
C28_RouteQueryReturnsOnlyIndexedTrips ==
    RouteAsked =>
        /\ tripQuery.err = "nil" =>
               \E t \in trips :
                   /\ t.id = tripQuery.trip
                   /\ t.route_id = tripQuery.target
                   /\ MatchingEntries(t.id) # {}
        /\ tripQuery.err # "nil" => tripQuery.err = ErrNoRows /\ tripQuery.trip = ""
        /\ \A t \in trips :
               t.block_id = NoBlock =>
                   /\ \A e \in block_trip_entry : e.trip_id # t.id
                   /\ tripQuery.trip # t.id
        /\ block_trip_entry = {} => tripQuery.err = ErrNoRows

\* the only trip in progress on the asked route has no block id, other
\* trips are indexed under the given index ids, and the query finds no row
C28_Witness ==
    /\ RouteAsked
    /\ tripQuery.err = ErrNoRows
    /\ Cardinality(InProgressOnRoute) = 1
    /\ \A t \in InProgressOnRoute : t.block_id = NoBlock
    /\ \E e \in block_trip_entry :
           /\ e.block_trip_index_id \in tripQuery.index_ids
           /\ e.service_id \in tripQuery.service_ids

=========================================================================








